---- MODULE Spec2Model ----
(***************************************************************************)
(* Model of solox/device_management/device_pool.py: the DevicePool         *)
(* registry, its start_monitoring / stop_monitoring lifecycle as executed  *)
(* by concurrent caller threads, and the background _monitor_devices loop  *)
(* with its poll cycle (_update_device_statuses), the registry's read and  *)
(* wait calls, and HealthMonitor.check_device_health of                    *)
(* solox/device_management/advanced_features.py with its bounded history.  *)
(*                                                                         *)
(* Every attribute read of the lifecycle methods is its own step, because  *)
(* the methods take no lock.  The poll cycle runs under self.lock; its     *)
(* local variables are only live while the lock is held, so they are kept  *)
(* once, for the thread holding the lock.                                  *)
(***************************************************************************)
EXTENDS Naturals, Integers, Sequences, FiniteSets, TLC

\* ---------------------------------------------------------------- bounds
Ids == {"d1", "d2"}            \* device ids the callers and the backend use
Names == {"n1"}
Versions == {"v1"}
LifeIds == {"d1"}              \* the ids used where two callers race
Callers == {"c1", "c2"}        \* threads calling start/stop_monitoring
Owner == "c1"                  \* the caller where only one drives the monitor
MaxThreads == 2                \* monitor Thread objects alive at once
MaxTime == 3                   \* time.time() takes the values 1..MaxTime
Threads == 1..MaxThreads
MaxTimeout == 2                \* wait_for_device is called with timeout 0..MaxTimeout
Timeouts == 0..MaxTimeout
MaxChecks == 3                 \* get_metrics() results per id where they vary
MaxHistoryChecks == 205        \* ... and where the history fills up
PoolSize == 11                 \* devices of the batch that fills the worker pool
PoolNames == <<"p01", "p02", "p03", "p04", "p05", "p06", "p07", "p08", "p09",
               "p10", "p11", "p12", "p13">>
PoolIds == SubSeq(PoolNames, 1, PoolSize)
\* the lists execute_batch is called with where the outcomes vary
BatchLists == {<<>>, <<"d1">>, <<"d2">>, <<"d1", "d2">>, <<"d2", "d1">>}
Coroutines == {"k1", "k2"}     \* coroutines calling check_and_recover
MaxRecoverCalls == 5           \* check_and_recover calls entered
ProfileName == "test_profile"  \* the name create_profile is called with
AppliedNames == {ProfileName, "non_existent"}
SettingValues == {"value1", "performance", "on"}
\* profile.settings.items(), in the order of the dict
SettingLists ==
    {<<<<"setting1", "value1">>>>,
     <<<<"performance_mode", "on">>, <<"cpu_governor", "performance">>,
       <<"keep_alive", "on">>>>}
\* the length of the longest of SettingLists
MaxSettings ==
    CHOOSE n \in {Len(l) : l \in SettingLists} :
        \A l \in SettingLists : Len(l) <= n
SettingNames == UNION {{l[i][1] : i \in 1..Len(l)} : l \in SettingLists}
CompatibilityLists ==
    {<<"test_model">>, <<"other_model">>, <<"iPhone.*", "Pixel.*">>,
     <<"Pixel 6", "test_model">>}
DeviceModel == [d \in Ids |-> IF d = "d1" THEN "Pixel 6" ELSE "test_model"]
UpdateThreads == {"u1", "u2"}  \* threads inside _update_health_history
MaxUpdates == 4                \* _update_health_history calls entered by them
MaxDuration == 2               \* start_profiling is called with duration 0..MaxDuration
MaxProfiled == 2               \* samples appended where the outcomes vary
MaxSamples == 1005             \* samples appended where the metrics history fills up
ListType == [d \in Ids |-> IF d = "d1" THEN "android" ELSE "ios"]
                               \* the type each id is registered with where
                               \* the callers also list the registry

\* ---------------------------------------------------------- program constants
MaxReconnectAttempts == 2      \* DevicePool(max_reconnect_attempts=2)
HealthCap == 100               \* health_history[device_id][-100:]
max_workers == 10              \* ThreadPoolExecutor(max_workers=10)
max_attempts == 3              \* AutoRecovery.max_attempts
MetricsCap == 1000             \* metrics_history[device_id][-1000:]
ErrorRateOne == 100            \* error_rate=1.0, in hundredths

None == 0                      \* Python None for a thread reference / free lock
ANDROID == "android"
IOS == "ios"
DeviceType == {ANDROID, IOS}

NoValue == 0 - 1               \* None in an Optional[float] field
NoError == "<None>"            \* None in last_error
Unset == "<unset>"            \* an attribute the device handle does not have
NoField == <<>>                \* a key a results entry does not have
NoResults == [none |-> TRUE]   \* execute_batch has not returned

\* ------------------------------------------------- inputs of the backend
\* the dicts device.get_metrics() returns (None: the key is missing)
MetricSamples ==
    {[cpu_usage |-> 50, memory_usage |-> 60, battery_level |-> 80,
      temperature |-> 35, connection_strength |-> 90],
     [cpu_usage |-> 95, memory_usage |-> 60, battery_level |-> 80,
      temperature |-> 35, connection_strength |-> 90],
     [cpu_usage |-> 50, memory_usage |-> 60, battery_level |-> NoValue,
      temperature |-> NoValue, connection_strength |-> 90],
     [cpu_usage |-> 50, memory_usage |-> 60, battery_level |-> 10,
      temperature |-> 35, connection_strength |-> 20],
     [cpu_usage |-> 10, memory_usage |-> 10, battery_level |-> NoValue,
      temperature |-> 50, connection_strength |-> 20]}
ErrorMessages == {"Test error", ""}       \* str(e) of what get_metrics() raises
\* the k-th dict get_metrics() returns where the history fills up
SampleAt(k) ==
    [cpu_usage |-> k % (HealthCap + 1), memory_usage |-> 60, battery_level |-> NoValue,
     temperature |-> 35, connection_strength |-> 20]

\* the dicts it returns where AutoRecovery reads the health
RecoverySamples ==
    {[cpu_usage |-> 50, memory_usage |-> 60, battery_level |-> 10,
      temperature |-> 35, connection_strength |-> 30],
     [cpu_usage |-> 95, memory_usage |-> 60, battery_level |-> NoValue,
      temperature |-> NoValue, connection_strength |-> 20]}
\* ... and where only battery_level or temperature is over its threshold
WarningSamples ==
    {[cpu_usage |-> 50, memory_usage |-> 60, battery_level |-> 50,
      temperature |-> 35, connection_strength |-> 30],
     [cpu_usage |-> 50, memory_usage |-> 60, battery_level |-> 10,
      temperature |-> 50, connection_strength |-> 30],
     [cpu_usage |-> 50, memory_usage |-> 95, battery_level |-> 10,
      temperature |-> 35, connection_strength |-> 30]}
\* the dicts device.get_metrics() returns to the profiler
PerfSamples ==
    {[throughput |-> 100, error_rate |-> 1],
     [throughput |-> 7, error_rate |-> 0]}
\* the k-th dict it returns where the metrics history fills up
PerfSampleAt(k) == [throughput |-> k % (MetricsCap + 1), error_rate |-> 1]

VARIABLES
    devices,          \* self.devices: id -> DeviceInfo (domain = registered ids)
    order,            \* insertion order of the dict self.devices
    lock,             \* self.lock: None or the monitor thread holding it
    monitor_thread,   \* self._monitor_thread: None or a Thread
    stop_event,       \* self._stop_monitoring (threading.Event)
    tpc,              \* state / position of each monitor Thread object
    cpc,              \* position of each caller inside start/stop_monitoring
    join_target,      \* the Thread a caller is blocked on in join()
    clock,            \* value time.time() returns
    android_devices,  \* local of _update_device_statuses (lock holder)
    ios_devices,      \* local of _update_device_statuses (lock holder)
    current_time,     \* local of _update_device_statuses (lock holder)
    idx,              \* position of the for loop over self.devices.items()
    reconnected,      \* ids for which _try_reconnect returned True in the
                      \* cycle that last reached its for loop
    ret,              \* return value of the last add_device / remove_device
    quiesced,         \* a stop_monitoring has returned and no start_monitoring
                      \* call has been entered since
    listed,           \* the list object the last get_all_devices /
                      \* get_connected_devices call returned to its caller
    listed_by,        \* which of the two calls returned it
    wpc,              \* position of the caller inside wait_for_device
    w_id,             \* wait_for_device: argument device_id
    w_timeout,        \* wait_for_device: argument timeout
    w_start,          \* wait_for_device: local start_time
    w_wake,           \* wait_for_device: instant at which time.sleep(1) ends
    w_ret,            \* return value of the last wait_for_device call
    conn_seen,        \* history: device w_id had status "connected" at an
                      \* instant t of the call with t - start_time < timeout
    health_history,   \* HealthMonitor.health_history: id -> list of DeviceHealth
    hpc,              \* position of the coroutine inside check_device_health
    h_id,             \* check_device_health: argument device_id
    h_outcome,        \* how the last check_device_health call ended
    h_ret,            \* the DeviceHealth the last call returned
    h_calls,          \* history: calls per id that returned a DeviceHealth
    h_appended,       \* history: _update_health_history calls per id
    metrics_history,  \* PerformanceProfiler.metrics_history: id -> list
    ppc,              \* position of the coroutine inside _collect_metrics
    p_id,             \* _collect_metrics: argument device_id
    p_device,         \* _collect_metrics: local device (resolved or None)
    p_start,          \* _collect_metrics: local start_time
    p_response,       \* _collect_metrics: local response_time
    p_outcome,        \* how the last _collect_metrics call ended
    p_ret,            \* the PerformanceMetrics the last call returned
    p_appended,       \* history: _update_metrics_history calls per id
    recovery_attempts,\* AutoRecovery.recovery_attempts: id -> int (0 if absent)
    rpc,              \* position of each coroutine inside check_and_recover
    r_id,             \* check_and_recover: argument device_id
    r_health,         \* check_and_recover: local health
    r_plan,           \* _attempt_recovery: device actions still to be awaited
    r_issued,         \* history: device actions the call has issued, in order
    r_ret,            \* how the last check_and_recover of the coroutine ended
    r_before,         \* history: recovery_attempts[device_id] as lines 173-177
                      \* found it
    r_streak,         \* history: check_and_recover calls per id that ended
                      \* unhealthy since the last healthy one (up to max_attempts)
    r_calls,          \* history: check_and_recover calls entered
    bpc,              \* position of the caller inside execute_batch
    b_devices,        \* execute_batch: argument devices (a list of ids)
    b_task,           \* the futures of the list `futures`, in submit order:
                      \* queued, running, or how _execute_single_operation ended
    b_invoked,        \* history: positions whose device operation was called
    b_collect,        \* position of the second for loop of execute_batch
    results,          \* execute_batch: local results (id -> entry)
    b_ret,            \* what the last execute_batch call returned
    spc,              \* position of the caller inside start_profiling
    s_id,             \* start_profiling: argument device_id
    s_duration,       \* start_profiling: argument duration
    s_start,          \* start_profiling: local start_time
    s_collect,        \* _collect_metrics called by line 221: local start_time
    metrics_list,     \* start_profiling: local metrics_list
    s_outcome,        \* how the last start_profiling call ended
    s_ret,            \* what the last start_profiling call returned
    profiles,         \* ProfileManager.profiles: name -> DeviceProfile
    dev_settings,     \* attributes set on the device handles: id -> setting
                      \* -> value (Unset when never set)
    a_id,             \* apply_profile: argument device_id
    a_name,           \* apply_profile: argument profile_name
    a_throw,          \* position of the setattr that raised (0: none did)
    a_outcome,        \* how the last apply_profile call ended
    h_keys,           \* the keys of HealthMonitor.health_history
    upc,              \* position of each thread inside _update_health_history
    u_id,             \* _update_health_history: argument device_id
    u_health,         \* _update_health_history: argument health
    u_tmp,            \* the list the slice of line 158 built, not yet stored
    u_added,          \* history: the health records of the finished calls
    u_calls           \* history: _update_health_history calls entered
listVars == <<listed, listed_by>>
waitLocals == <<wpc, w_id, w_timeout, w_start, w_wake, w_ret>>
waitVars == <<waitLocals, conn_seen>>
healthVars == <<health_history, hpc, h_id, h_outcome, h_ret, h_calls,
                h_appended>>
profilerVars == <<metrics_history, ppc, p_id, p_device, p_start, p_response,
                  p_outcome, p_ret, p_appended>>
recoveryVars == <<recovery_attempts, rpc, r_id, r_health, r_plan, r_issued,
                  r_ret, r_before, r_streak, r_calls>>
batchVars == <<bpc, b_devices, b_task, b_invoked, b_collect, results, b_ret>>
startVars == <<spc, s_id, s_duration, s_start, s_collect, metrics_list,
               s_outcome, s_ret>>
profileVars == <<profiles, dev_settings, a_id, a_name, a_throw, a_outcome>>
threadLocals == <<upc, u_id, u_health, u_tmp, u_added, u_calls>>
threadVars == <<h_keys, threadLocals>>
sessionVars == <<startVars, profileVars, threadVars>>
managerVars == <<profilerVars, recoveryVars, batchVars, sessionVars>>
clientVars == <<listVars, waitVars, healthVars, managerVars>>

vars == <<devices, order, lock, monitor_thread, stop_event, tpc, cpc,
          join_target, clock, android_devices, ios_devices, current_time,
          idx, reconnected, ret, quiesced, clientVars>>

cycleLocals == <<android_devices, ios_devices, current_time, idx, reconnected>>
registry == <<devices, order>>
lifecycle == <<monitor_thread, stop_event, cpc, join_target, quiesced>>

\* ------------------------------------------------------------- DeviceInfo
\* a DeviceInfo constructed with a status other than the default
DeviceInfoConnected(id, type, name, version) ==
    [id |-> id, type |-> type, name |-> name, version |-> version,
     status |-> "connected", last_seen |-> 0, reconnect_attempts |-> 0]

DeviceInfo(id, type, name, version) ==
    [id |-> id, type |-> type, name |-> name, version |-> version,
     status |-> "disconnected", last_seen |-> 0, reconnect_attempts |-> 0]

Registered == DOMAIN devices

\* ----------------------------------------------------------- DeviceHealth
DeviceHealth(device_id, cpu, memory, battery, temperature, strength, e, s) ==
    [device_id |-> device_id, cpu_usage |-> cpu, memory_usage |-> memory,
     battery_level |-> battery, temperature |-> temperature,
     connection_strength |-> strength, last_error |-> e, status |-> s]
\* no DeviceHealth returned yet
NoHealth == DeviceHealth("None", 0, 0, NoValue, NoValue, 0, NoError, "none")

\* ---------------------------------------------------- PerformanceMetrics
\* error_rate is kept in hundredths: 1.0 is ErrorRateOne, 0.01 is 1
PerformanceMetrics(device_id, response_time, throughput, error_rate, ts) ==
    [device_id |-> device_id, response_time |-> response_time,
     throughput |-> throughput, error_rate |-> error_rate, timestamp |-> ts]
\* no PerformanceMetrics returned yet
NoMetrics == PerformanceMetrics("None", 0, 0, 0, 0)

\* ------------------------------------------------------------------- Init
Init ==
    /\ devices = <<>>
    /\ order = <<>>
    /\ lock = None
    /\ monitor_thread = None
    /\ stop_event = FALSE
    /\ tpc = [t \in Threads |-> "none"]
    /\ cpc = [c \in Callers |-> "idle"]
    /\ join_target = [c \in Callers |-> None]
    /\ clock = 1
    /\ android_devices = {}
    /\ ios_devices = {}
    /\ current_time = 0
    /\ idx = 0
    /\ reconnected = {}
    /\ ret = "none"
    /\ quiesced = FALSE
    /\ listed = <<>>
    /\ listed_by = "none"
    /\ wpc = "idle"
    /\ w_id = "d1"
    /\ w_timeout = 0
    /\ w_start = 0
    /\ w_wake = 0
    /\ w_ret = "none"
    /\ conn_seen = FALSE
    /\ health_history = [d \in Ids |-> <<>>]
    /\ hpc = "idle"
    /\ h_id = "d1"
    /\ h_outcome = "none"
    /\ h_ret = NoHealth
    /\ h_calls = [d \in Ids |-> 0]
    /\ h_appended = [d \in Ids |-> 0]
    /\ metrics_history = [d \in Ids |-> <<>>]
    /\ ppc = "idle"
    /\ p_id = "d1"
    /\ p_device = FALSE
    /\ p_start = 0
    /\ p_response = 0
    /\ p_outcome = "none"
    /\ p_ret = NoMetrics
    /\ p_appended = [d \in Ids |-> 0]
    /\ recovery_attempts = [d \in Ids |-> 0]
    /\ rpc = [k \in Coroutines |-> "idle"]
    /\ r_id = [k \in Coroutines |-> "d1"]
    /\ r_health = [k \in Coroutines |-> NoHealth]
    /\ r_plan = [k \in Coroutines |-> <<>>]
    /\ r_issued = [k \in Coroutines |-> <<>>]
    /\ r_ret = [k \in Coroutines |-> "none"]
    /\ r_before = [k \in Coroutines |-> 0]
    /\ r_streak = [d \in Ids |-> 0]
    /\ r_calls = 0
    /\ bpc = "idle"
    /\ b_devices = <<>>
    /\ b_task = <<>>
    /\ b_invoked = {}
    /\ b_collect = 1
    /\ results = <<>>
    /\ b_ret = NoResults
    /\ spc = "idle"
    /\ s_id = "None"
    /\ s_duration = 0
    /\ s_start = 0
    /\ s_collect = 0
    /\ metrics_list = <<>>
    /\ s_outcome = "none"
    /\ s_ret = <<>>
    /\ profiles = <<>>
    /\ dev_settings = [d \in Ids |-> [x \in SettingNames |-> Unset]]
    /\ a_id = "None"
    /\ a_name = "None"
    /\ a_throw = 0
    /\ a_outcome = <<"none">>
    /\ h_keys = {}
    /\ upc = [c \in UpdateThreads |-> "idle"]
    /\ u_id = [c \in UpdateThreads |-> "None"]
    /\ u_health = [c \in UpdateThreads |-> NoHealth]
    /\ u_tmp = [c \in UpdateThreads |-> <<>>]
    /\ u_added = {}
    /\ u_calls = 0

\* ------------------------------------------------- threading.Thread state
\* "none": no such object; "new": constructed, not started; "check".."sleep":
\* running _monitor_devices; "done": target returned; "crashed": target raised.
Started(t) == tpc[t] \notin {"none", "new"}
Finished(t) == tpc[t] \in {"done", "crashed"}
Alive(t) == Started(t) /\ ~Finished(t)

\* A Thread object nobody references any more can be collected and its slot
\* reused by the next threading.Thread(...) call.
Referenced(t) == monitor_thread = t \/ \E c \in Callers : join_target[c] = t
FreeThread(t) ==
    tpc[t] = "none" \/ ((Finished(t) \/ tpc[t] = "new") /\ ~Referenced(t))
FreeThreads == {t \in Threads : FreeThread(t)}
NewThread == CHOOSE t \in FreeThreads : \A u \in FreeThreads : t <= u

InStart(c) == cpc[c] \in {"s46", "s47", "s48", "s49", "s50"}
InStop(c) == cpc[c] \in {"p55", "p56", "p57", "p57wait", "p58"}

\* ------------------------------------------------------ start_monitoring
\* A caller enters start_monitoring().
StartCall(c) ==
    /\ cpc[c] = "idle"
    /\ cpc' = [cpc EXCEPT ![c] = "s46"]
    /\ quiesced' = FALSE
    /\ UNCHANGED <<registry, lock, monitor_thread, stop_event, tpc,
                   join_target, clock, cycleLocals, ret, clientVars>>

\* line 46: if self._monitor_thread is None
Start46(c) ==
    /\ cpc[c] = "s46"
    /\ cpc' = [cpc EXCEPT ![c] = IF monitor_thread = None THEN "s47" ELSE "idle"]
    /\ UNCHANGED <<registry, lock, monitor_thread, stop_event, tpc,
                   join_target, clock, cycleLocals, ret, quiesced, clientVars>>

\* line 47: self._stop_monitoring.clear()
Start47(c) ==
    /\ cpc[c] = "s47"
    /\ stop_event' = FALSE
    /\ cpc' = [cpc EXCEPT ![c] = "s48"]
    /\ UNCHANGED <<registry, lock, monitor_thread, tpc,
                   join_target, clock, cycleLocals, ret, quiesced, clientVars>>

\* line 48: self._monitor_thread = threading.Thread(target=self._monitor_devices)
Start48(c) ==
    /\ cpc[c] = "s48"
    /\ FreeThreads # {}
    /\ tpc' = [tpc EXCEPT ![NewThread] = "new"]
    /\ monitor_thread' = NewThread
    /\ cpc' = [cpc EXCEPT ![c] = "s49"]
    /\ UNCHANGED <<registry, lock, stop_event,
                   join_target, clock, cycleLocals, ret, quiesced, clientVars>>

\* line 49: self._monitor_thread.daemon = True
\* AttributeError on None; RuntimeError when the thread was already started.
Start49(c) ==
    /\ cpc[c] = "s49"
    /\ cpc' = [cpc EXCEPT ![c] =
                 IF monitor_thread # None /\ tpc[monitor_thread] = "new"
                 THEN "s50" ELSE "start_raised"]
    /\ UNCHANGED <<registry, lock, monitor_thread, stop_event, tpc,
                   join_target, clock, cycleLocals, ret, quiesced, clientVars>>

\* line 50: self._monitor_thread.start()
\* AttributeError on None; RuntimeError when the thread was already started.
Start50(c) ==
    /\ cpc[c] = "s50"
    /\ IF monitor_thread # None /\ tpc[monitor_thread] = "new"
       THEN /\ tpc' = [tpc EXCEPT ![monitor_thread] = "check"]
            /\ cpc' = [cpc EXCEPT ![c] = "idle"]
       ELSE /\ tpc' = tpc
            /\ cpc' = [cpc EXCEPT ![c] = "start_raised"]
    /\ UNCHANGED <<registry, lock, monitor_thread, stop_event,
                   join_target, clock, cycleLocals, ret, quiesced, clientVars>>

\* ------------------------------------------------------- stop_monitoring
\* A caller enters stop_monitoring().
StopCall(c) ==
    /\ cpc[c] = "idle"
    /\ cpc' = [cpc EXCEPT ![c] = "p55"]
    /\ UNCHANGED <<registry, lock, monitor_thread, stop_event, tpc,
                   join_target, clock, cycleLocals, ret, quiesced, clientVars>>

\* stop_monitoring returns to caller c while no caller is inside start_monitoring
StopReturns(c) == \A o \in Callers \ {c} : ~InStart(o)

\* line 55: if self._monitor_thread is not None
Stop55(c) ==
    /\ cpc[c] = "p55"
    /\ IF monitor_thread # None
       THEN /\ cpc' = [cpc EXCEPT ![c] = "p56"]
            /\ quiesced' = quiesced
       ELSE /\ cpc' = [cpc EXCEPT ![c] = "idle"]
            /\ quiesced' = StopReturns(c)
    /\ UNCHANGED <<registry, lock, monitor_thread, stop_event, tpc,
                   join_target, clock, cycleLocals, ret, clientVars>>

\* line 56: self._stop_monitoring.set()
Stop56(c) ==
    /\ cpc[c] = "p56"
    /\ stop_event' = TRUE
    /\ cpc' = [cpc EXCEPT ![c] = "p57"]
    /\ UNCHANGED <<registry, lock, monitor_thread, tpc,
                   join_target, clock, cycleLocals, ret, quiesced, clientVars>>

\* line 57: self._monitor_thread.join() -- the attribute is read and join()
\* is entered.  AttributeError on None; RuntimeError ("cannot join thread
\* before it is started") on a thread that was not started.
Stop57(c) ==
    /\ cpc[c] = "p57"
    /\ IF monitor_thread # None /\ Started(monitor_thread)
       THEN /\ join_target' = [join_target EXCEPT ![c] = monitor_thread]
            /\ cpc' = [cpc EXCEPT ![c] = "p57wait"]
       ELSE /\ join_target' = join_target
            /\ cpc' = [cpc EXCEPT ![c] = "stop_raised"]
    /\ UNCHANGED <<registry, lock, monitor_thread, stop_event, tpc,
                   clock, cycleLocals, ret, quiesced, clientVars>>

\* join() returns once the target of the joined thread has ended
JoinReturns(t) == Finished(t)

\* line 57: join() returns
Stop57Wait(c) ==
    /\ cpc[c] = "p57wait"
    /\ JoinReturns(join_target[c])
    /\ join_target' = [join_target EXCEPT ![c] = None]
    /\ cpc' = [cpc EXCEPT ![c] = "p58"]
    /\ UNCHANGED <<registry, lock, monitor_thread, stop_event, tpc,
                   clock, cycleLocals, ret, quiesced, clientVars>>

\* line 58: self._monitor_thread = None, then the method returns
Stop58(c) ==
    /\ cpc[c] = "p58"
    /\ monitor_thread' = None
    /\ cpc' = [cpc EXCEPT ![c] = "idle"]
    /\ quiesced' = StopReturns(c)
    /\ UNCHANGED <<registry, lock, stop_event, tpc,
                   join_target, clock, cycleLocals, ret, clientVars>>

\* the exception raised inside start/stop_monitoring reaches the caller
Raised(c) ==
    /\ cpc[c] \in {"start_raised", "stop_raised"}
    /\ cpc' = [cpc EXCEPT ![c] = "idle"]
    /\ UNCHANGED <<registry, lock, monitor_thread, stop_event, tpc,
                   join_target, clock, cycleLocals, ret, quiesced, clientVars>>

\* ---------------------------------------------------- registry methods
\* add_device / remove_device take self.lock for their whole body, so each is
\* one step that can only happen while no monitor thread holds the lock.
RemoveFromOrder(d) == SelectSeq(order, LAMBDA x : x # d)

\* A list handed to a caller holds the registry's own DeviceInfo objects, not
\* copies.  An entry is Ref(d) while its object is the one self.devices holds
\* for d; once remove_device has dropped that object from the dict nothing
\* writes to it any more, and the entry is the object's final value.
Ref(d) == [ref |-> d]
IsRef(e) == DOMAIN e = {"ref"}
Deref(e) == IF IsRef(e) THEN devices[e.ref] ELSE e
Detach(list, d) ==
    [i \in 1..Len(list) |-> IF IsRef(list[i]) /\ list[i].ref = d
                             THEN devices[d] ELSE list[i]]

\* add_device that overwrites the record of an id already present
add_device_overwrite(d, type, name, version) ==
    /\ lock = None
    /\ devices' = [x \in Registered \cup {d} |->
                     IF x = d THEN DeviceInfo(d, type, name, version)
                              ELSE devices[x]]
    /\ order' = IF d \in Registered THEN order ELSE Append(order, d)
    /\ ret' = IF d \in Registered THEN "add_false" ELSE "add_true"
    /\ UNCHANGED <<lock, lifecycle, tpc, clock, cycleLocals, clientVars>>

\* add_device that does not take the lock
add_device_unlocked(d, type, name, version) ==
    /\ IF d \notin Registered
       THEN /\ devices' = [x \in Registered \cup {d} |->
                             IF x = d THEN DeviceInfo(d, type, name, version)
                                      ELSE devices[x]]
            /\ order' = Append(order, d)
            /\ ret' = "add_true"
       ELSE /\ UNCHANGED registry
            /\ ret' = "add_false"
    /\ UNCHANGED <<lock, lifecycle, tpc, clock, cycleLocals, clientVars>>

\* lines 133-145
add_device(d, type, name, version) ==
    /\ lock = None
    /\ IF d \notin Registered
       THEN /\ devices' = [x \in Registered \cup {d} |->
                             IF x = d THEN DeviceInfo(d, type, name, version)
                                      ELSE devices[x]]
            /\ order' = Append(order, d)
            /\ ret' = "add_true"
       ELSE /\ UNCHANGED registry
            /\ ret' = "add_false"
    /\ UNCHANGED <<lock, lifecycle, tpc, clock, cycleLocals, clientVars>>

\* remove_device that drops every record, not only the one asked for
remove_device_clear(d) ==
    /\ lock = None
    /\ IF d \in Registered
       THEN /\ devices' = <<>>
            /\ order' = <<>>
            /\ listed' = [i \in 1..Len(listed) |-> Deref(listed[i])]
            /\ ret' = "remove_true"
       ELSE /\ UNCHANGED <<registry, listed>>
            /\ ret' = "remove_false"
    /\ UNCHANGED <<lock, lifecycle, tpc, clock, cycleLocals, listed_by,
                   waitVars, healthVars, managerVars>>

\* lines 147-154
remove_device(d) ==
    /\ lock = None
    /\ IF d \in Registered
       THEN /\ devices' = [x \in Registered \ {d} |-> devices[x]]
            /\ order' = RemoveFromOrder(d)
            /\ listed' = Detach(listed, d)
            /\ ret' = "remove_true"
       ELSE /\ UNCHANGED <<registry, listed>>
            /\ ret' = "remove_false"
    /\ UNCHANGED <<lock, lifecycle, tpc, clock, cycleLocals, listed_by,
                   waitVars, healthVars, managerVars>>

\* lines 156-159: the DeviceInfo object of the dict itself, or None
NoDevice == [id |-> "None"]
get_device_info(d) == IF d \in Registered THEN devices[d] ELSE NoDevice

\* the registry's objects in dict order, as list(self.devices.values()) and
\* the list comprehension of get_connected_devices walk them
Values == [i \in 1..Len(order) |-> Ref(order[i])]

\* lines 161-164
get_all_devices ==
    /\ lock = None
    /\ listed' = Values
    /\ listed_by' = "all"
    /\ UNCHANGED <<registry, lock, lifecycle, tpc, clock, cycleLocals, ret,
                   waitVars, healthVars, managerVars>>

\* get_connected_devices without its status filter
get_connected_devices_unfiltered ==
    /\ lock = None
    /\ listed' = Values
    /\ listed_by' = "connected"
    /\ UNCHANGED <<registry, lock, lifecycle, tpc, clock, cycleLocals, ret,
                   waitVars, healthVars, managerVars>>

\* lines 166-169
get_connected_devices ==
    /\ lock = None
    /\ listed' = SelectSeq(Values, LAMBDA e : Deref(e).status = "connected")
    /\ listed_by' = "connected"
    /\ UNCHANGED <<registry, lock, lifecycle, tpc, clock, cycleLocals, ret,
                   waitVars, healthVars, managerVars>>

\* ------------------------------------------------------ wait_for_device
\* lines 171-173: the call is entered and start_time = time.time() is read
WaitCall(d, timeout) ==
    /\ wpc = "idle"
    /\ wpc' = "check"
    /\ w_id' = d
    /\ w_timeout' = timeout
    /\ w_start' = clock
    /\ w_wake' = 0
    /\ w_ret' = "none"
    /\ conn_seen' = (/\ 0 < timeout
                     /\ d \in Registered
                     /\ devices[d].status = "connected")
    /\ UNCHANGED <<registry, lock, lifecycle, tpc, clock, cycleLocals, ret,
                   listVars, healthVars, managerVars>>

\* line 174, and line 179 when the loop condition fails
WaitCheck ==
    /\ wpc = "check"
    /\ IF clock - w_start < w_timeout
       THEN /\ wpc' = "get"
            /\ w_ret' = w_ret
       ELSE /\ wpc' = "idle"
            /\ w_ret' = "wait_false"
    /\ UNCHANGED <<registry, lock, lifecycle, tpc, clock, cycleLocals, ret,
                   listVars, w_id, w_timeout, w_start, w_wake, conn_seen,
                   healthVars, managerVars>>

\* lines 175-177, and the entry into time.sleep(1) of line 178
WaitGet ==
    /\ wpc = "get"
    /\ lock = None
    /\ LET device == get_device_info(w_id)
       IN IF device # NoDevice /\ device.status = "connected"
          THEN /\ wpc' = "idle"
               /\ w_ret' = "wait_true"
               /\ w_wake' = w_wake
          ELSE /\ wpc' = "sleep"
               /\ w_ret' = w_ret
               /\ w_wake' = clock + 1
    /\ UNCHANGED <<registry, lock, lifecycle, tpc, clock, cycleLocals, ret,
                   listVars, w_id, w_timeout, w_start, conn_seen, healthVars,
                   managerVars>>

\* line 178: time.sleep(1) returns once a second has passed
WaitSleep ==
    /\ wpc = "sleep"
    /\ clock >= w_wake
    /\ wpc' = "check"
    /\ UNCHANGED <<registry, lock, lifecycle, tpc, clock, cycleLocals, ret,
                   listVars, w_id, w_timeout, w_start, w_wake, w_ret,
                   conn_seen, healthVars, managerVars>>

\* -------------------------------------------------------- HealthMonitor
\* self.alert_thresholds
alert_thresholds ==
    [cpu_usage |-> 90, memory_usage |-> 90, battery_level |-> 15,
     temperature |-> 45, connection_strength |-> 30]

\* the condition of the `if any(...)`: some field that is not None is greater
\* than the threshold stored under its name
ExceedsThreshold(health) ==
    \E metric \in DOMAIN alert_thresholds :
        /\ health[metric] # NoValue
        /\ health[metric] > alert_thresholds[metric]

\* list[-HealthCap:]
LastRecords(list) ==
    IF Len(list) <= HealthCap THEN list
    ELSE SubSeq(list, Len(list) - HealthCap + 1, Len(list))

\* _update_health_history: append, then keep the last HealthCap records
UpdateHealthHistory(list, health) == LastRecords(Append(list, health))

\* device_pool.get_device(device_id), as far as `if not device` reads it: a
\* handle for a registered id, nothing for any other
get_device(d) == d \in Registered

\* lines 111-115: the device is resolved; DeviceError leaves the coroutine
HealthCall(d) ==
    /\ hpc = "idle"
    /\ h_id' = d
    /\ IF get_device(d)
       THEN /\ hpc' = "await"
            /\ h_outcome' = "none"
       ELSE /\ hpc' = "idle"
            /\ h_outcome' = "raised"
    /\ h_ret' = NoHealth
    /\ UNCHANGED <<registry, lock, lifecycle, tpc, clock, cycleLocals, ret,
                   listVars, waitVars, managerVars, health_history, h_calls,
                   h_appended>>

\* lines 118-134: the DeviceHealth built from the dict m, then classified
MeasuredHealth(d, m) ==
    LET built == DeviceHealth(d, m.cpu_usage, m.memory_usage,
                              m.battery_level, m.temperature,
                              m.connection_strength, NoError, "healthy")
    IN IF ExceedsThreshold(built)
       THEN [built EXCEPT !.status = "warning"]
       ELSE built

\* lines 141-150: the DeviceHealth of the except branch
ErrorHealth(d, msg) ==
    DeviceHealth(d, 0, 0, NoValue, NoValue, 0, msg, "error")

\* lines 117-137: get_metrics() returned the dict m
HealthMetrics(m) ==
    /\ hpc = "await"
    /\ health_history' =
          [health_history EXCEPT
              ![h_id] = UpdateHealthHistory(@, MeasuredHealth(h_id, m))]
    /\ h_ret' = MeasuredHealth(h_id, m)
    /\ h_appended' = [h_appended EXCEPT ![h_id] = @ + 1]
    /\ h_calls' = [h_calls EXCEPT ![h_id] = @ + 1]
    /\ h_keys' = h_keys \cup {h_id}
    /\ h_outcome' = "returned"
    /\ hpc' = "idle"
    /\ UNCHANGED <<registry, lock, lifecycle, tpc, clock, cycleLocals, ret,
                   listVars, waitVars, profilerVars, recoveryVars, batchVars,
                   startVars, profileVars, threadLocals, h_id>>

\* lines 139-150: get_metrics() raised an exception e with str(e) = msg
HealthMetricsRaises(msg) ==
    /\ hpc = "await"
    /\ h_ret' = ErrorHealth(h_id, msg)
    /\ h_calls' = [h_calls EXCEPT ![h_id] = @ + 1]
    /\ h_outcome' = "returned"
    /\ hpc' = "idle"
    /\ UNCHANGED <<registry, lock, lifecycle, tpc, clock, cycleLocals, ret,
                   listVars, waitVars, managerVars, health_history, h_id,
                   h_appended>>

\* ------------------------------------------------- BatchOperationManager
\* a results entry; a key the dict does not have is NoField
SuccessEntry == [status |-> "success", result |-> <<"result">>, error |-> NoField]
ErrorEntry(message) == [status |-> "error", result |-> NoField, error |-> message]
\* str(e) of the two exceptions _execute_single_operation raises
DeviceNotFound(d) == <<"Device", d, "not found">>
OperationFailed(msg) == <<"Operation", "failed:", msg>>

Running == {i \in 1..Len(b_task) : b_task[i] = "running"}
Ended(i) == b_task[i] \in {"success", "device_error", "operation_error"}

\* a pool that hands every queued task to a thread at once
WorkerFreeAlways == TRUE

\* ThreadPoolExecutor(max_workers=10): a work item is taken from the queue
\* only by one of at most max_workers threads, each running one item
WorkerFree == Cardinality(Running) < max_workers

\* lines 59-65: execute_batch is entered with the list devices
BatchCall(list) ==
    /\ bpc = "idle"
    /\ bpc' = "running"
    /\ b_devices' = list
    /\ b_task' = <<>>
    /\ b_invoked' = {}
    /\ b_collect' = 1
    /\ results' = <<>>
    /\ b_ret' = NoResults
    /\ UNCHANGED <<registry, lock, lifecycle, tpc, clock, cycleLocals, ret,
                   listVars, waitVars, healthVars, profilerVars, recoveryVars, sessionVars>>

\* lines 67-74: the next device of the first for loop is submitted
BatchSubmit ==
    /\ bpc = "running"
    /\ Len(b_task) < Len(b_devices)
    /\ b_task' = Append(b_task, "queued")
    /\ UNCHANGED <<registry, lock, lifecycle, tpc, clock, cycleLocals, ret,
                   listVars, waitVars, healthVars, profilerVars, recoveryVars, sessionVars,
                   bpc, b_devices, b_invoked, b_collect, results, b_ret>>

\* a worker that calls the operation without looking the device up
TaskStartBlind(i) ==
    /\ i \in 1..Len(b_task)
    /\ b_task[i] = "queued"
    /\ \A j \in 1..(i - 1) : b_task[j] # "queued"
    /\ WorkerFree
    /\ b_task' = [b_task EXCEPT ![i] = "running"]
    /\ b_invoked' = b_invoked \cup {i}
    /\ UNCHANGED <<registry, lock, lifecycle, tpc, clock, cycleLocals, ret,
                   listVars, waitVars, healthVars, profilerVars, recoveryVars, sessionVars,
                   bpc, b_devices, b_collect, results, b_ret>>

\* lines 85-91: a free worker takes the oldest queued item, looks the device
\* up and either raises DeviceError or calls the operation
TaskStart(i) ==
    /\ i \in 1..Len(b_task)
    /\ b_task[i] = "queued"
    /\ \A j \in 1..(i - 1) : b_task[j] # "queued"
    /\ WorkerFree
    /\ IF get_device(b_devices[i])
       THEN /\ b_task' = [b_task EXCEPT ![i] = "running"]
            /\ b_invoked' = b_invoked \cup {i}
       ELSE /\ b_task' = [b_task EXCEPT ![i] = "device_error"]
            /\ b_invoked' = b_invoked
    /\ UNCHANGED <<registry, lock, lifecycle, tpc, clock, cycleLocals, ret,
                   listVars, waitVars, healthVars, profilerVars, recoveryVars, sessionVars,
                   bpc, b_devices, b_collect, results, b_ret>>

\* lines 91-95: the operation returned (ok) or raised; the worker is free
TaskFinish(i, ok) ==
    /\ i \in 1..Len(b_task)
    /\ b_task[i] = "running"
    /\ b_task' = [b_task EXCEPT
                     ![i] = IF ok THEN "success" ELSE "operation_error"]
    /\ UNCHANGED <<registry, lock, lifecycle, tpc, clock, cycleLocals, ret,
                   listVars, waitVars, healthVars, profilerVars, recoveryVars, sessionVars,
                   bpc, b_devices, b_invoked, b_collect, results, b_ret>>

\* what future.result() gives line 78, or the entry line 81 builds
EntryOf(i) ==
    IF b_task[i] = "success" THEN SuccessEntry
    ELSE IF b_task[i] = "device_error"
    THEN ErrorEntry(DeviceNotFound(b_devices[i]))
    ELSE ErrorEntry(OperationFailed("Test error"))

\* a second loop that lets the exception of future.result() through
BatchCollectRaises ==
    /\ bpc = "running"
    /\ Len(b_task) = Len(b_devices)
    /\ b_collect <= Len(b_devices)
    /\ Ended(b_collect)
    /\ IF b_task[b_collect] = "success"
       THEN /\ results' = [d \in DOMAIN results \cup {b_devices[b_collect]} |->
                              IF d = b_devices[b_collect]
                              THEN EntryOf(b_collect) ELSE results[d]]
            /\ b_collect' = b_collect + 1
            /\ UNCHANGED <<bpc, b_ret>>
       ELSE /\ bpc' = "idle"
            /\ b_ret' = [none |-> FALSE]
            /\ UNCHANGED <<results, b_collect>>
    /\ UNCHANGED <<registry, lock, lifecycle, tpc, clock, cycleLocals, ret,
                   listVars, waitVars, healthVars, profilerVars, recoveryVars, sessionVars,
                   b_devices, b_task, b_invoked>>

\* lines 76-81: future.result() of the next future returns or raises
BatchCollect ==
    /\ bpc = "running"
    /\ Len(b_task) = Len(b_devices)
    /\ b_collect <= Len(b_devices)
    /\ Ended(b_collect)
    /\ results' = [d \in DOMAIN results \cup {b_devices[b_collect]} |->
                      IF d = b_devices[b_collect]
                      THEN EntryOf(b_collect) ELSE results[d]]
    /\ b_collect' = b_collect + 1
    /\ UNCHANGED <<registry, lock, lifecycle, tpc, clock, cycleLocals, ret,
                   listVars, waitVars, healthVars, profilerVars, recoveryVars, sessionVars,
                   bpc, b_devices, b_task, b_invoked, b_ret>>

\* line 83
BatchReturn ==
    /\ bpc = "running"
    /\ Len(b_task) = Len(b_devices)
    /\ b_collect > Len(b_devices)
    /\ bpc' = "idle"
    /\ b_ret' = results
    /\ UNCHANGED <<registry, lock, lifecycle, tpc, clock, cycleLocals, ret,
                   listVars, waitVars, healthVars, profilerVars, recoveryVars, sessionVars,
                   b_devices, b_task, b_invoked, b_collect, results>>

\* ---------------------------------------------------------- AutoRecovery
\* _attempt_recovery with the three tests in the opposite order
RecoveryPlanReversed(health) ==
    (IF health.status = "error" THEN <<"reboot">> ELSE <<>>)
    \o (IF health.connection_strength < 30 THEN <<"reconnect">> ELSE <<>>)
    \o (IF health.cpu_usage > 90 \/ health.memory_usage > 90
        THEN <<"restart_apps">> ELSE <<>>)

\* lines 194-201: the device actions _attempt_recovery awaits, in order
RecoveryPlan(health) ==
    (IF health.cpu_usage > 90 \/ health.memory_usage > 90
        THEN <<"restart_apps">> ELSE <<>>)
    \o (IF health.connection_strength < 30 THEN <<"reconnect">> ELSE <<>>)
    \o (IF health.status = "error" THEN <<"reboot">> ELSE <<>>)

\* a healthy check that leaves the counter as it is
ResetAttemptsNot(d) == recovery_attempts

\* line 174
ResetAttempts(d) == [recovery_attempts EXCEPT ![d] = 0]

\* line 183, reading the counter as it is now
CountAttempt(d) == [recovery_attempts EXCEPT ![d] = @ + 1]

\* history: one more call for d ended unhealthy
StreakUp(d) ==
    [r_streak EXCEPT ![d] = IF @ < max_attempts THEN @ + 1 ELSE @]

\* lines 169-171, into check_device_health lines 113-115: DeviceError is
\* raised outside every try and leaves check_and_recover
RecoverCall(k, d) ==
    /\ rpc[k] = "idle"
    /\ r_calls' = r_calls + 1
    /\ r_id' = [r_id EXCEPT ![k] = d]
    /\ r_issued' = [r_issued EXCEPT ![k] = <<>>]
    /\ r_health' = [r_health EXCEPT ![k] = NoHealth]
    /\ IF get_device(d)
       THEN /\ rpc' = [rpc EXCEPT ![k] = "metrics"]
            /\ r_ret' = [r_ret EXCEPT ![k] = "none"]
       ELSE /\ rpc' = rpc
            /\ r_ret' = [r_ret EXCEPT ![k] = "raised"]
    /\ UNCHANGED <<registry, lock, lifecycle, tpc, clock, cycleLocals, ret,
                   listVars, waitVars, healthVars, profilerVars, batchVars, sessionVars,
                   recovery_attempts, r_plan, r_before, r_streak>>

\* lines 173-187 with health in hand, up to the first device action awaited
Decide(k, health) ==
    LET d == r_id[k]
        attempts == recovery_attempts[d]
        plan == RecoveryPlan(health)
    IN /\ r_health' = [r_health EXCEPT ![k] = health]
       /\ r_before' = [r_before EXCEPT ![k] = attempts]
       /\ IF health.status = "healthy"
          THEN /\ recovery_attempts' = ResetAttempts(d)
               /\ r_ret' = [r_ret EXCEPT ![k] = "true"]
               /\ rpc' = [rpc EXCEPT ![k] = "idle"]
               /\ r_streak' = [r_streak EXCEPT ![d] = 0]
               /\ r_plan' = r_plan
          ELSE IF attempts >= max_attempts \/ ~get_device(d)
          THEN /\ recovery_attempts' = recovery_attempts
               /\ r_ret' = [r_ret EXCEPT ![k] = "false"]
               /\ rpc' = [rpc EXCEPT ![k] = "idle"]
               /\ r_streak' = StreakUp(d)
               /\ r_plan' = r_plan
          ELSE IF plan = <<>>
          THEN /\ recovery_attempts' = CountAttempt(d)
               /\ r_ret' = [r_ret EXCEPT ![k] = "true"]
               /\ rpc' = [rpc EXCEPT ![k] = "idle"]
               /\ r_streak' = StreakUp(d)
               /\ r_plan' = r_plan
          ELSE /\ recovery_attempts' = recovery_attempts
               /\ r_ret' = r_ret
               /\ rpc' = [rpc EXCEPT ![k] = "act"]
               /\ r_streak' = r_streak
               /\ r_plan' = [r_plan EXCEPT ![k] = plan]

\* check_device_health lines 117-137 returned to line 171
RecoverMetrics(k, m) ==
    /\ rpc[k] = "metrics"
    /\ health_history' =
          [health_history EXCEPT
              ![r_id[k]] = UpdateHealthHistory(@, MeasuredHealth(r_id[k], m))]
    /\ h_appended' = [h_appended EXCEPT ![r_id[k]] = @ + 1]
    /\ h_calls' = [h_calls EXCEPT ![r_id[k]] = @ + 1]
    /\ Decide(k, MeasuredHealth(r_id[k], m))
    /\ UNCHANGED <<registry, lock, lifecycle, tpc, clock, cycleLocals, ret,
                   listVars, waitVars, profilerVars, batchVars, sessionVars, hpc, h_id, h_outcome,
                   h_ret, r_id, r_issued, r_calls>>

\* check_device_health lines 139-150 returned to line 171
RecoverMetricsRaises(k, msg) ==
    /\ rpc[k] = "metrics"
    /\ h_calls' = [h_calls EXCEPT ![r_id[k]] = @ + 1]
    /\ Decide(k, ErrorHealth(r_id[k], msg))
    /\ UNCHANGED <<registry, lock, lifecycle, tpc, clock, cycleLocals, ret,
                   listVars, waitVars, profilerVars, batchVars, sessionVars, health_history, hpc,
                   h_id, h_outcome, h_ret, h_appended, r_id, r_issued,
                   r_calls>>

\* lines 194-201 and 182-187: the next device action is awaited; ok tells
\* whether it returned or raised
RecoverAction(k, ok) ==
    /\ rpc[k] = "act"
    /\ r_issued' = [r_issued EXCEPT ![k] = Append(@, Head(r_plan[k]))]
    /\ IF ~ok
       THEN /\ recovery_attempts' = recovery_attempts
            /\ r_ret' = [r_ret EXCEPT ![k] = "false"]
            /\ rpc' = [rpc EXCEPT ![k] = "idle"]
            /\ r_streak' = StreakUp(r_id[k])
            /\ r_plan' = [r_plan EXCEPT ![k] = <<>>]
       ELSE IF Len(r_plan[k]) = 1
       THEN /\ recovery_attempts' = CountAttempt(r_id[k])
            /\ r_ret' = [r_ret EXCEPT ![k] = "true"]
            /\ rpc' = [rpc EXCEPT ![k] = "idle"]
            /\ r_streak' = StreakUp(r_id[k])
            /\ r_plan' = [r_plan EXCEPT ![k] = <<>>]
       ELSE /\ recovery_attempts' = recovery_attempts
            /\ r_ret' = r_ret
            /\ rpc' = rpc
            /\ r_streak' = r_streak
            /\ r_plan' = [r_plan EXCEPT ![k] = Tail(@)]
    /\ UNCHANGED <<registry, lock, lifecycle, tpc, clock, cycleLocals, ret,
                   listVars, waitVars, healthVars, profilerVars, batchVars, sessionVars, r_id,
                   r_health, r_before, r_calls>>

\* --------------------------------------------------- PerformanceProfiler
\* list[-MetricsCap:]
LastMetrics(list) ==
    IF Len(list) <= MetricsCap THEN list
    ELSE SubSeq(list, Len(list) - MetricsCap + 1, Len(list))

\* _update_metrics_history without the cut to the last MetricsCap records
UpdateMetricsHistoryUncut(list, metrics) == Append(list, metrics)

\* _update_metrics_history: append, then keep the last MetricsCap records
UpdateMetricsHistory(list, metrics) == LastMetrics(Append(list, metrics))

\* the PerformanceMetrics of the except branch
WorstCaseMetrics(d, ts) == PerformanceMetrics(d, 0, 0, ErrorRateOne, ts)

\* lines 228-231: the device is looked up (None is kept) and the time read
CollectCall(d) ==
    /\ ppc = "idle"
    /\ ppc' = "ping"
    /\ p_id' = d
    /\ p_device' = get_device(d)
    /\ p_start' = clock
    /\ p_response' = 0
    /\ p_outcome' = "none"
    /\ p_ret' = NoMetrics
    /\ UNCHANGED <<registry, lock, lifecycle, tpc, clock, cycleLocals, ret,
                   listVars, waitVars, healthVars, recoveryVars, batchVars, sessionVars,
                   metrics_history, p_appended>>

\* lines 233-235: device.ping() returned
CollectPing ==
    /\ ppc = "ping"
    /\ p_device
    /\ ppc' = "metrics"
    /\ p_response' = clock - p_start
    /\ UNCHANGED <<registry, lock, lifecycle, tpc, clock, cycleLocals, ret,
                   listVars, waitVars, healthVars, recoveryVars, batchVars, sessionVars,
                   metrics_history, p_id,
                   p_device, p_start, p_outcome, p_ret, p_appended>>

\* lines 237-244: device.get_metrics() returned the dict m
CollectMetrics(m) ==
    /\ ppc = "metrics"
    /\ ppc' = "idle"
    /\ p_ret' = PerformanceMetrics(p_id, p_response, m.throughput,
                                   m.error_rate, clock)
    /\ p_outcome' = "returned"
    /\ UNCHANGED <<registry, lock, lifecycle, tpc, clock, cycleLocals, ret,
                   listVars, waitVars, healthVars, recoveryVars, batchVars, sessionVars,
                   metrics_history, p_id,
                   p_device, p_start, p_response, p_appended>>

\* an except branch that lets the exception through
CollectRaisesThrough ==
    /\ ppc \in {"ping", "metrics"}
    /\ ppc' = "idle"
    /\ p_ret' = NoMetrics
    /\ p_outcome' = "raised"
    /\ UNCHANGED <<registry, lock, lifecycle, tpc, clock, cycleLocals, ret,
                   listVars, waitVars, healthVars, recoveryVars, batchVars, sessionVars,
                   metrics_history, p_id,
                   p_device, p_start, p_response, p_appended>>

\* lines 245-253: something inside the try raised - device is None and has
\* no ping, ping() raised, get_metrics() raised or lacks a key
CollectRaises ==
    /\ ppc \in {"ping", "metrics"}
    /\ ppc' = "idle"
    /\ p_ret' = WorstCaseMetrics(p_id, clock)
    /\ p_outcome' = "returned"
    /\ UNCHANGED <<registry, lock, lifecycle, tpc, clock, cycleLocals, ret,
                   listVars, waitVars, healthVars, recoveryVars, batchVars, sessionVars,
                   metrics_history, p_id,
                   p_device, p_start, p_response, p_appended>>

\* lines 255-261, called with what _collect_metrics returned (line 222)
ProfilerUpdate ==
    /\ ppc = "idle"
    /\ p_outcome = "returned"
    /\ metrics_history' =
          [metrics_history EXCEPT ![p_id] = UpdateMetricsHistory(@, p_ret)]
    /\ p_appended' = [p_appended EXCEPT ![p_id] = @ + 1]
    /\ p_outcome' = "appended"
    /\ UNCHANGED <<registry, lock, lifecycle, tpc, clock, cycleLocals, ret,
                   listVars, waitVars, healthVars, recoveryVars, batchVars, sessionVars, ppc, p_id, p_device,
                   p_start, p_response, p_ret>>

\* lines 211-218: the device is looked up; an unknown id raises DeviceError
ProfilingCall(d, duration) ==
    /\ spc = "idle"
    /\ s_id' = d
    /\ s_duration' = duration
    /\ metrics_list' = <<>>
    /\ s_ret' = <<>>
    /\ s_collect' = 0
    /\ IF get_device(d)
       THEN /\ spc' = "test"
            /\ s_start' = clock
            /\ s_outcome' = "none"
       ELSE /\ spc' = "idle"
            /\ s_start' = 0
            /\ s_outcome' = "DeviceError"
    /\ UNCHANGED <<registry, lock, lifecycle, tpc, clock, cycleLocals, ret,
                   listVars, waitVars, healthVars, profilerVars, recoveryVars,
                   batchVars, profileVars, threadVars>>

\* line 220 is true: _collect_metrics is called and awaited (line 221)
ProfilingCollect ==
    /\ spc = "test"
    /\ clock - s_start < s_duration
    /\ spc' = "collect"
    /\ s_collect' = clock
    /\ UNCHANGED <<registry, lock, lifecycle, tpc, clock, cycleLocals, ret,
                   listVars, waitVars, healthVars, profilerVars, recoveryVars,
                   batchVars, profileVars, threadVars, s_id, s_duration, s_start, metrics_list,
                   s_outcome, s_ret>>

\* lines 221-224: _collect_metrics returned metrics, which is appended to
\* metrics_list and to the history; then the name asyncio is looked up, which
\* no line of the module binds (lines 12-21), and NameError leaves the call
ProfilingSample(metrics) ==
    /\ spc = "collect"
    /\ metrics_list' = Append(metrics_list, metrics)
    /\ metrics_history' =
          [metrics_history EXCEPT ![s_id] = UpdateMetricsHistory(@, metrics)]
    /\ p_appended' = [p_appended EXCEPT ![s_id] = @ + 1]
    /\ spc' = "idle"
    /\ s_outcome' = "NameError"
    /\ UNCHANGED <<registry, lock, lifecycle, tpc, clock, cycleLocals, ret,
                   listVars, waitVars, healthVars, recoveryVars, batchVars,
                   profileVars, threadVars, ppc, p_id, p_device, p_start, p_response, p_outcome, p_ret,
                   s_id, s_duration, s_start, s_collect, s_ret>>

\* lines 220 and 226: the while condition is false, metrics_list is returned
ProfilingReturn ==
    /\ spc = "test"
    /\ ~(clock - s_start < s_duration)
    /\ spc' = "idle"
    /\ s_outcome' = "returned"
    /\ s_ret' = metrics_list
    /\ UNCHANGED <<registry, lock, lifecycle, tpc, clock, cycleLocals, ret,
                   listVars, waitVars, healthVars, profilerVars, recoveryVars,
                   batchVars, profileVars, threadVars, s_id, s_duration, s_start, s_collect,
                   metrics_list>>

\* ---------------------------------------------------------- ProfileManager
\* lines 269-279: the profile is stored under its name, replacing an older one
create_profile(name, settings, compatibility) ==
    /\ profiles' = [n \in DOMAIN profiles \cup {name} |->
                       IF n = name
                       THEN [name |-> name, settings |-> settings,
                             compatibility |-> compatibility]
                       ELSE profiles[n]]
    /\ UNCHANGED <<registry, lock, lifecycle, tpc, clock, cycleLocals, ret,
                   listVars, waitVars, healthVars, profilerVars, recoveryVars,
                   batchVars, startVars, threadVars, dev_settings, a_id, a_name, a_throw,
                   a_outcome>>

\* a compatibility test that lets every device through
IsCompatibleAlways(model, compatibility) == TRUE

\* line 293: device.model in profile.compatibility, equality of strings
IsCompatible(model, compatibility) ==
    \E i \in 1..Len(compatibility) : compatibility[i] = model

\* lines 297-298: setattr(device, setting, value) for the settings 1..n, in
\* the order of profile.settings.items()
RECURSIVE SetAttrs(_, _, _)
SetAttrs(old, settings, n) ==
    IF n = 0 THEN old
    ELSE [SetAttrs(old, settings, n - 1) EXCEPT
              ![settings[n][1]] = settings[n][2]]

\* a loop that leaves the device as it was when a setattr raised
AppliedSettingsAtomic(old, settings, throw) ==
    IF throw = 0 THEN SetAttrs(old, settings, Len(settings)) ELSE old

\* lines 296-302: the loop runs to its end, or up to the setattr that raises
AppliedSettings(old, settings, throw) ==
    SetAttrs(old, settings, IF throw = 0 THEN Len(settings) ELSE throw - 1)

\* lines 281-302; throw is the position of the setattr that raises (0: none)
apply_profile(d, name, throw) ==
    /\ a_id' = d
    /\ a_name' = name
    /\ IF name \notin DOMAIN profiles
       THEN /\ a_outcome' = <<"ValueError", "Profile", name, "not found">>
            /\ a_throw' = 0
            /\ UNCHANGED dev_settings
       ELSE IF ~get_device(d)
       THEN /\ a_outcome' = <<"DeviceError", "Device", d, "not found">>
            /\ a_throw' = 0
            /\ UNCHANGED dev_settings
       ELSE IF ~IsCompatible(DeviceModel[d], profiles[name].compatibility)
       THEN /\ a_outcome' = <<"ValueError", "Profile", name,
                               "is not compatible with device", d>>
            /\ a_throw' = 0
            /\ UNCHANGED dev_settings
       ELSE /\ throw \in 0..Len(profiles[name].settings)
            /\ a_throw' = throw
            /\ a_outcome' = <<IF throw = 0 THEN "True" ELSE "False">>
            /\ dev_settings' =
                  [dev_settings EXCEPT
                      ![d] = AppliedSettings(@, profiles[name].settings,
                                             throw)]
    /\ UNCHANGED <<registry, lock, lifecycle, tpc, clock, cycleLocals, ret,
                   listVars, waitVars, healthVars, profilerVars, recoveryVars,
                   batchVars, startVars, threadVars, profiles>>

\* ------------------------- _update_health_history, statement by statement
\* line 152: a thread enters with the record it is to append
UpdateCall(c, d, health) ==
    /\ upc[c] = "idle"
    /\ upc' = [upc EXCEPT ![c] = "test"]
    /\ u_id' = [u_id EXCEPT ![c] = d]
    /\ u_health' = [u_health EXCEPT ![c] = health]
    /\ u_calls' = u_calls + 1
    /\ UNCHANGED <<registry, lock, lifecycle, tpc, clock, cycleLocals, ret,
                   listVars, waitVars, healthVars, profilerVars, recoveryVars,
                   batchVars, startVars, profileVars, h_keys, u_tmp, u_added>>

\* line 154: device_id not in self.health_history
UpdateTest(c) ==
    /\ upc[c] = "test"
    /\ upc' = [upc EXCEPT
                  ![c] = IF u_id[c] \in h_keys THEN "append" ELSE "create"]
    /\ UNCHANGED <<registry, lock, lifecycle, tpc, clock, cycleLocals, ret,
                   listVars, waitVars, healthVars, profilerVars, recoveryVars,
                   batchVars, startVars, profileVars, h_keys, u_id, u_health,
                   u_tmp, u_added, u_calls>>

\* line 155: self.health_history[device_id] = []
UpdateCreate(c) ==
    /\ upc[c] = "create"
    /\ upc' = [upc EXCEPT ![c] = "append"]
    /\ health_history' = [health_history EXCEPT ![u_id[c]] = <<>>]
    /\ h_keys' = h_keys \cup {u_id[c]}
    /\ UNCHANGED <<registry, lock, lifecycle, tpc, clock, cycleLocals, ret,
                   listVars, waitVars, profilerVars, recoveryVars, batchVars,
                   startVars, profileVars, hpc, h_id, h_outcome, h_ret,
                   h_calls, h_appended, u_id, u_health, u_tmp, u_added,
                   u_calls>>

\* line 156: self.health_history[device_id].append(health)
UpdateAppend(c) ==
    /\ upc[c] = "append"
    /\ upc' = [upc EXCEPT ![c] = "slice"]
    /\ health_history' =
          [health_history EXCEPT ![u_id[c]] = Append(@, u_health[c])]
    /\ h_appended' = [h_appended EXCEPT ![u_id[c]] = @ + 1]
    /\ UNCHANGED <<registry, lock, lifecycle, tpc, clock, cycleLocals, ret,
                   listVars, waitVars, profilerVars, recoveryVars, batchVars,
                   startVars, profileVars, hpc, h_id, h_outcome, h_ret,
                   h_calls, h_keys, u_id, u_health, u_tmp, u_added, u_calls>>

\* line 158, right-hand side: a new list of the last HealthCap records
UpdateSlice(c) ==
    /\ upc[c] = "slice"
    /\ upc' = [upc EXCEPT ![c] = "store"]
    /\ u_tmp' = [u_tmp EXCEPT ![c] = LastRecords(health_history[u_id[c]])]
    /\ UNCHANGED <<registry, lock, lifecycle, tpc, clock, cycleLocals, ret,
                   listVars, waitVars, healthVars, profilerVars, recoveryVars,
                   batchVars, startVars, profileVars, h_keys, u_id, u_health,
                   u_added, u_calls>>

\* line 158, assignment: the new list replaces the one in the dict
UpdateStore(c) ==
    /\ upc[c] = "store"
    /\ upc' = [upc EXCEPT ![c] = "idle"]
    /\ health_history' = [health_history EXCEPT ![u_id[c]] = u_tmp[c]]
    /\ u_added' = u_added \cup {u_health[c]}
    /\ UNCHANGED <<registry, lock, lifecycle, tpc, clock, cycleLocals, ret,
                   listVars, waitVars, profilerVars, recoveryVars, batchVars,
                   startVars, profileVars, hpc, h_id, h_outcome, h_ret,
                   h_calls, h_appended, h_keys, u_id, u_health, u_tmp,
                   u_calls>>

\* -------------------------------------------------- the poll cycle, pure
\* _update_device_status that forgets to reset the attempt counter
UpdateDeviceStatusNoReset(device, status, timestamp) ==
    [device EXCEPT !.status = status, !.last_seen = timestamp]

\* lines 95-103: _update_device_status
UpdateDeviceStatus(device, status, timestamp) ==
    [device EXCEPT !.status = status,
                   !.last_seen = timestamp,
                   !.reconnect_attempts = IF status = "connected" THEN 0 ELSE @]

\* _handle_disconnected_device that leaves the status as it was
MarkDisconnectedKeep(device) == device

\* lines 107-110: a device that was connected becomes disconnected
MarkDisconnected(device) ==
    IF device.status = "connected"
    THEN [device EXCEPT !.status = "disconnected"]
    ELSE device

\* a counter test that lets every disconnected device be reconnected
ShouldReconnectAlways(device) == TRUE

\* line 112
ShouldReconnect(device) == device.reconnect_attempts < MaxReconnectAttempts

\* a status check that finds no device reachable
IsReachableNever(device) == FALSE

\* a status check that looks the id up in both reachable sets
IsReachableAnyType(device) == device.id \in android_devices \cup ios_devices

\* lines 84-93: membership in the reachable set of the device's own type
IsReachable(device) ==
    IF device.type = ANDROID THEN device.id \in android_devices
                             ELSE device.id \in ios_devices

\* lines 120-131: _try_reconnect.  Android: adb.connect returns (True) or
\* raises (False).  iOS: the id is or is not in a fresh Usbmux().devices(),
\* or that call raises (False).
TryReconnectOutcomes(device) == {TRUE, FALSE}

\* a poll cycle that does not wait for the lock
CanAcquireAlways == TRUE

\* line 69: with self.lock -- the lock can be taken when nobody holds it
CanAcquire == lock = None

ClearedLocals ==
    /\ android_devices' = {}
    /\ ios_devices' = {}
    /\ current_time' = 0
    /\ idx' = 0

\* the end of the for loop of a cycle: every device was handled, the lock is
\* still held
CycleEnd == lock # None /\ tpc[lock] = "iter" /\ idx > Len(order)

\* ------------------------------------------------------ _monitor_devices
\* line 63: while not self._stop_monitoring.is_set()
MonitorCheck(t) ==
    /\ tpc[t] = "check"
    /\ tpc' = [tpc EXCEPT ![t] = IF stop_event THEN "done" ELSE "acquire"]
    /\ UNCHANGED <<registry, lock, lifecycle, clock, cycleLocals, ret, clientVars>>

\* line 69: with self.lock
MonitorAcquire(t) ==
    /\ tpc[t] = "acquire"
    /\ CanAcquire
    /\ lock' = t
    /\ tpc' = [tpc EXCEPT ![t] = "android"]
    /\ UNCHANGED <<registry, lifecycle, clock, cycleLocals, ret, clientVars>>

\* line 71: adb.device_list() returns
MonitorAndroid(t, S) ==
    /\ tpc[t] = "android"
    /\ android_devices' = S
    /\ tpc' = [tpc EXCEPT ![t] = "ios"]
    /\ UNCHANGED <<registry, lock, lifecycle, clock, ios_devices, current_time,
                   idx, reconnected, ret, clientVars>>

\* line 71: adb.device_list() raises; nothing catches it, the with statement
\* releases the lock and the thread's target ends with the exception
MonitorAndroidRaises(t) ==
    /\ tpc[t] = "android"
    /\ lock' = None
    /\ tpc' = [tpc EXCEPT ![t] = "crashed"]
    /\ ClearedLocals
    /\ UNCHANGED <<registry, lifecycle, clock, reconnected, ret, clientVars>>

\* lines 74-77: tidevice.Usbmux().devices() returns
MonitorIos(t, S) ==
    /\ tpc[t] = "ios"
    /\ ios_devices' = S
    /\ tpc' = [tpc EXCEPT ![t] = "time"]
    /\ UNCHANGED <<registry, lock, lifecycle, clock, android_devices,
                   current_time, idx, reconnected, ret, clientVars>>

\* lines 78-79: tidevice.Usbmux().devices() raises; caught, ios_devices = {}
MonitorIosRaises(t) ==
    /\ tpc[t] = "ios"
    /\ ios_devices' = {}
    /\ tpc' = [tpc EXCEPT ![t] = "time"]
    /\ UNCHANGED <<registry, lock, lifecycle, clock, android_devices,
                   current_time, idx, reconnected, ret, clientVars>>

\* line 82: current_time = time.time(); line 83: the for loop starts
MonitorTime(t) ==
    /\ tpc[t] = "time"
    /\ current_time' = clock
    /\ idx' = 1
    /\ reconnected' = {}
    /\ tpc' = [tpc EXCEPT ![t] = "iter"]
    /\ UNCHANGED <<registry, lock, lifecycle, clock, android_devices,
                   ios_devices, ret, clientVars>>

\* History of a wait_for_device call in progress: the write to devices just
\* made left the awaited device "connected" while less than the timeout had
\* elapsed since the call.
InWindow == wpc # "idle" /\ clock - w_start < w_timeout
RecordConnected ==
    conn_seen' = (conn_seen \/ (/\ InWindow
                                /\ w_id \in DOMAIN devices'
                                /\ devices'[w_id].status = "connected"))

\* lines 83-93 for the next device of self.devices.items(), up to the call
\* of _try_reconnect (lines 105-114)
MonitorUpdateDevice(t) ==
    /\ tpc[t] = "iter"
    /\ idx <= Len(order)
    /\ LET d == order[idx]
           device == devices[d]
           down == MarkDisconnected(device)
       IN IF IsReachable(device)
          THEN /\ devices' = [devices EXCEPT
                                ![d] = UpdateDeviceStatus(device, "connected", current_time)]
               /\ idx' = idx + 1
               /\ tpc' = tpc
          ELSE IF ShouldReconnect(down)
          THEN /\ devices' = [devices EXCEPT
                                ![d] = [down EXCEPT !.reconnect_attempts = @ + 1]]
               /\ idx' = idx
               /\ tpc' = [tpc EXCEPT ![t] = "reconnect"]
          ELSE /\ devices' = [devices EXCEPT ![d] = down]
               /\ idx' = idx + 1
               /\ tpc' = tpc
    /\ UNCHANGED <<order, lock, lifecycle, clock, android_devices, ios_devices,
                   current_time, reconnected, ret, listVars, waitLocals,
                   healthVars, managerVars>>
    /\ RecordConnected

\* lines 115-118: _try_reconnect returns
MonitorReconnect(t) ==
    /\ tpc[t] = "reconnect"
    /\ LET d == order[idx]
           device == devices[d]
       IN \E ok \in TryReconnectOutcomes(device) :
            IF ok
            THEN /\ devices' = [devices EXCEPT
                                  ![d] = UpdateDeviceStatus(device, "connected", current_time)]
                 /\ reconnected' = reconnected \cup {d}
            ELSE /\ devices' = [devices EXCEPT ![d].last_seen = current_time]
                 /\ reconnected' = reconnected
    /\ idx' = idx + 1
    /\ tpc' = [tpc EXCEPT ![t] = "iter"]
    /\ UNCHANGED <<order, lock, lifecycle, clock, android_devices, ios_devices,
                   current_time, ret, listVars, waitLocals,
                   healthVars, managerVars>>
    /\ RecordConnected

\* end of the with block of _update_device_statuses: the lock is released
MonitorRelease(t) ==
    /\ tpc[t] = "iter"
    /\ idx > Len(order)
    /\ lock' = None
    /\ tpc' = [tpc EXCEPT ![t] = "sleep"]
    /\ ClearedLocals
    /\ UNCHANGED <<registry, lifecycle, clock, reconnected, ret, clientVars>>

\* line 65: time.sleep(self.reconnect_interval) returns
MonitorSleep(t) ==
    /\ tpc[t] = "sleep"
    /\ tpc' = [tpc EXCEPT ![t] = "check"]
    /\ UNCHANGED <<registry, lock, lifecycle, clock, cycleLocals, ret, clientVars>>

\* time passes
Tick ==
    /\ clock < MaxTime
    /\ clock' = clock + 1
    /\ UNCHANGED <<registry, lock, lifecycle, tpc, cycleLocals, ret, clientVars>>

\* ------------------------------------------------------------------ Next
\* Two callers racing through start/stop_monitoring over a one-device
\* registry: every interleaving of the unlocked lifecycle methods with the
\* monitor threads.  Nothing in the lifecycle reads the time, so the clock
\* stands still here.
Next ==
    \/ \E c \in Callers : StartCall(c)
    \/ \E c \in Callers : Start46(c)
    \/ \E c \in Callers : Start47(c)
    \/ \E c \in Callers : Start48(c)
    \/ \E c \in Callers : Start49(c)
    \/ \E c \in Callers : Start50(c)
    \/ \E c \in Callers : StopCall(c)
    \/ \E c \in Callers : Stop55(c)
    \/ \E c \in Callers : Stop56(c)
    \/ \E c \in Callers : Stop57(c)
    \/ \E c \in Callers : Stop57Wait(c)
    \/ \E c \in Callers : Stop58(c)
    \/ \E c \in Callers : Raised(c)
    \/ \E d \in LifeIds, ty \in DeviceType, n \in Names, v \in Versions :
          add_device(d, ty, n, v)
    \/ \E d \in LifeIds : remove_device(d)
    \/ \E t \in Threads : MonitorCheck(t)
    \/ \E t \in Threads : MonitorAcquire(t)
    \/ \E t \in Threads, S \in SUBSET LifeIds : MonitorAndroid(t, S)
    \/ \E t \in Threads : MonitorAndroidRaises(t)
    \/ \E t \in Threads, S \in SUBSET LifeIds : MonitorIos(t, S)
    \/ \E t \in Threads : MonitorIosRaises(t)
    \/ \E t \in Threads : MonitorTime(t)
    \/ \E t \in Threads : MonitorUpdateDevice(t)
    \/ \E t \in Threads : MonitorReconnect(t)
    \/ \E t \in Threads : MonitorRelease(t)
    \/ \E t \in Threads : MonitorSleep(t)

Spec == Init /\ [][Next]_vars

\* One caller starting and stopping the monitor over a registry of all of
\* Ids: every poll cycle outcome, interleaved with add_device / remove_device
\* and the passing of time.
NextPoll ==
    \/ StartCall(Owner)
    \/ Start46(Owner)
    \/ Start47(Owner)
    \/ Start48(Owner)
    \/ Start49(Owner)
    \/ Start50(Owner)
    \/ StopCall(Owner)
    \/ Stop55(Owner)
    \/ Stop56(Owner)
    \/ Stop57(Owner)
    \/ Stop57Wait(Owner)
    \/ Stop58(Owner)
    \/ \E d \in Ids, ty \in DeviceType, n \in Names, v \in Versions :
          add_device(d, ty, n, v)
    \/ \E d \in Ids : remove_device(d)
    \/ \E t \in Threads : MonitorCheck(t)
    \/ \E t \in Threads : MonitorAcquire(t)
    \/ \E t \in Threads, S \in SUBSET Ids : MonitorAndroid(t, S)
    \/ \E t \in Threads : MonitorAndroidRaises(t)
    \/ \E t \in Threads, S \in SUBSET Ids : MonitorIos(t, S)
    \/ \E t \in Threads : MonitorIosRaises(t)
    \/ \E t \in Threads : MonitorTime(t)
    \/ \E t \in Threads : MonitorUpdateDevice(t)
    \/ \E t \in Threads : MonitorReconnect(t)
    \/ \E t \in Threads : MonitorRelease(t)
    \/ \E t \in Threads : MonitorSleep(t)
    \/ Tick

SpecPoll == Init /\ [][NextPoll]_vars

\* One caller starting the monitor over a registry of all of Ids, with the
\* registry's add / remove / list calls interleaved with the poll cycles.
NextList ==
    \/ StartCall(Owner)
    \/ Start46(Owner)
    \/ Start47(Owner)
    \/ Start48(Owner)
    \/ Start49(Owner)
    \/ Start50(Owner)
    \/ \E d \in Ids, n \in Names, v \in Versions :
          add_device(d, ListType[d], n, v)
    \/ \E d \in Ids : remove_device(d)
    \/ get_all_devices
    \/ get_connected_devices
    \/ \E t \in Threads : MonitorCheck(t)
    \/ \E t \in Threads : MonitorAcquire(t)
    \/ \E t \in Threads, S \in SUBSET Ids : MonitorAndroid(t, S)
    \/ \E t \in Threads : MonitorAndroidRaises(t)
    \/ \E t \in Threads, S \in SUBSET Ids : MonitorIos(t, S)
    \/ \E t \in Threads : MonitorIosRaises(t)
    \/ \E t \in Threads : MonitorTime(t)
    \/ \E t \in Threads : MonitorUpdateDevice(t)
    \/ \E t \in Threads : MonitorReconnect(t)
    \/ \E t \in Threads : MonitorRelease(t)
    \/ \E t \in Threads : MonitorSleep(t)

SpecList == Init /\ [][NextList]_vars

\* One caller starting the monitor over a one-device registry while another
\* thread sits in wait_for_device and time passes.
NextWait ==
    \/ StartCall(Owner)
    \/ Start46(Owner)
    \/ Start47(Owner)
    \/ Start48(Owner)
    \/ Start49(Owner)
    \/ Start50(Owner)
    \/ \E d \in LifeIds, ty \in DeviceType, n \in Names, v \in Versions :
          add_device(d, ty, n, v)
    \/ \E d \in LifeIds : remove_device(d)
    \/ \E d \in LifeIds, timeout \in Timeouts : WaitCall(d, timeout)
    \/ WaitCheck
    \/ WaitGet
    \/ WaitSleep
    \/ \E t \in Threads : MonitorCheck(t)
    \/ \E t \in Threads : MonitorAcquire(t)
    \/ \E t \in Threads, S \in SUBSET LifeIds : MonitorAndroid(t, S)
    \/ \E t \in Threads : MonitorAndroidRaises(t)
    \/ \E t \in Threads, S \in SUBSET LifeIds : MonitorIos(t, S)
    \/ \E t \in Threads : MonitorIosRaises(t)
    \/ \E t \in Threads : MonitorTime(t)
    \/ \E t \in Threads : MonitorUpdateDevice(t)
    \/ \E t \in Threads : MonitorReconnect(t)
    \/ \E t \in Threads : MonitorRelease(t)
    \/ \E t \in Threads : MonitorSleep(t)
    \/ Tick

SpecWait == Init /\ [][NextWait]_vars

\* check_device_health for registered, removed and never registered ids, with
\* every sample and failure of get_metrics().
NextHealth ==
    \/ \E d \in LifeIds, ty \in DeviceType, n \in Names, v \in Versions :
          add_device(d, ty, n, v)
    \/ \E d \in LifeIds : remove_device(d)
    \/ \E d \in Ids : h_calls[d] < MaxChecks /\ HealthCall(d)
    \/ \E m \in MetricSamples : HealthMetrics(m)
    \/ \E msg \in ErrorMessages : HealthMetricsRaises(msg)

SpecHealth == Init /\ [][NextHealth]_vars

\* check_device_health called over and over for one device until its history
\* has been cut many times.
NextHistory ==
    \/ \E d \in LifeIds, n \in Names, v \in Versions :
          add_device(d, ListType[d], n, v)
    \/ \E d \in LifeIds : h_calls[d] < MaxHistoryChecks /\ HealthCall(d)
    \/ HealthMetrics(SampleAt(h_appended[h_id]))
    \/ HealthMetricsRaises("Test error")

SpecHistory == Init /\ [][NextHistory]_vars

Profiled == p_appended["d1"] + p_appended["d2"]

\* _collect_metrics for registered, removed and never registered ids, with
\* every outcome of ping() and get_metrics(), each sample then appended.
NextProfile ==
    \/ \E d \in LifeIds, ty \in DeviceType, n \in Names, v \in Versions :
          add_device(d, ty, n, v)
    \/ \E d \in LifeIds : remove_device(d)
    \/ \E d \in Ids : Profiled < MaxProfiled /\ CollectCall(d)
    \/ CollectPing
    \/ \E m \in PerfSamples : CollectMetrics(m)
    \/ CollectRaises
    \/ ProfilerUpdate
    \/ Tick

SpecProfile == Init /\ [][NextProfile]_vars

\* start_profiling for registered and unknown ids, _collect_metrics returning
\* either what the device reported or the record of its except branch.
NextStart ==
    \/ \E d \in LifeIds, n \in Names, v \in Versions :
          add_device(d, ListType[d], n, v)
    \/ \E d \in LifeIds : remove_device(d)
    \/ \E d \in Ids, duration \in 0..MaxDuration :
          Profiled < MaxProfiled /\ ProfilingCall(d, duration)
    \/ ProfilingCollect
    \/ \E m \in PerfSamples :
          ProfilingSample(PerformanceMetrics(s_id, clock - s_collect,
                                             m.throughput, m.error_rate, clock))
    \/ ProfilingSample(WorstCaseMetrics(s_id, clock))
    \/ ProfilingReturn
    \/ Tick

SpecStart == Init /\ [][NextStart]_vars

\* Profiles created and replaced under one name and applied to registered
\* and unknown devices, any one setattr of a call raising.
NextProfiles ==
    \/ \E d \in Ids : add_device(d, ListType[d], "n1", "v1")
    \/ \E settings \in SettingLists, compatibility \in CompatibilityLists :
          create_profile(ProfileName, settings, compatibility)
    \/ \E d \in Ids, name \in AppliedNames, throw \in 0..MaxSettings :
          apply_profile(d, name, throw)

SpecProfiles == Init /\ [][NextProfiles]_vars

\* Two threads appending the health records of one device, the statements
\* of _update_health_history interleaving freely.
NextThreads ==
    \/ \E c \in UpdateThreads, d \in LifeIds :
          /\ u_calls < MaxUpdates
          /\ UpdateCall(c, d, MeasuredHealth(d, SampleAt(u_calls)))
    \/ \E c \in UpdateThreads : UpdateTest(c)
    \/ \E c \in UpdateThreads : UpdateCreate(c)
    \/ \E c \in UpdateThreads : UpdateAppend(c)
    \/ \E c \in UpdateThreads : UpdateSlice(c)
    \/ \E c \in UpdateThreads : UpdateStore(c)

SpecThreads == Init /\ [][NextThreads]_vars

\* One registered device sampled over and over until its metrics history has
\* been cut several times.
NextMetrics ==
    \/ \E d \in LifeIds, n \in Names, v \in Versions :
          add_device(d, ListType[d], n, v)
    \/ \E d \in LifeIds :
          /\ d \in Registered
          /\ p_appended[d] < MaxSamples
          /\ CollectCall(d)
    \/ CollectPing
    \/ CollectMetrics(PerfSampleAt(p_appended[p_id]))
    \/ ProfilerUpdate

SpecMetrics == Init /\ [][NextMetrics]_vars

\* Two coroutines in check_and_recover, suspended at their awaits, while the
\* device is registered and removed.
NextRecovery ==
    \/ \E d \in LifeIds, n \in Names, v \in Versions :
          add_device(d, ListType[d], n, v)
    \/ \E d \in LifeIds : remove_device(d)
    \/ \E k \in Coroutines, d \in LifeIds :
          r_calls < MaxRecoverCalls /\ RecoverCall(k, d)
    \/ \E k \in Coroutines, m \in RecoverySamples : RecoverMetrics(k, m)
    \/ \E k \in Coroutines : RecoverMetricsRaises(k, "Test error")
    \/ \E k \in Coroutines, ok \in BOOLEAN : RecoverAction(k, ok)

SpecRecovery == Init /\ [][NextRecovery]_vars

\* One coroutine in check_and_recover on a registered device whose health
\* is a warning with and without a device action to take.
NextWarning ==
    \/ \E d \in LifeIds : add_device(d, ListType[d], "n1", "v1")
    \/ \E d \in LifeIds :
          d \in Registered /\ r_calls < MaxRecoverCalls /\ RecoverCall("k1", d)
    \/ \E m \in WarningSamples : RecoverMetrics("k1", m)
    \/ RecoverMetricsRaises("k1", "Test error")
    \/ \E ok \in BOOLEAN : RecoverAction("k1", ok)

SpecWarning == Init /\ [][NextWarning]_vars

\* execute_batch over lists of registered and unknown ids, every operation
\* returning or raising, while the registry changes.
NextBatch ==
    \/ \E d \in Ids : add_device(d, ListType[d], "n1", "v1")
    \/ \E d \in Ids : remove_device(d)
    \/ \E list \in BatchLists : BatchCall(list)
    \/ BatchSubmit
    \/ \E i \in 1..Len(b_task) : TaskStart(i)
    \/ \E i \in 1..Len(b_task), ok \in BOOLEAN : TaskFinish(i, ok)
    \/ BatchCollect
    \/ BatchReturn

SpecBatch == Init /\ [][NextBatch]_vars

\* the caller registers the devices of PoolIds one after the other
AddPoolDevice ==
    /\ Len(order) < PoolSize
    /\ add_device(PoolIds[Len(order) + 1], ANDROID, "n1", "v1")

\* how the operation of the task at position i ends: every third one raises
PoolOutcome(i) == i % 3 # 0

\* execute_batch over more devices than the pool has workers
NextPool ==
    \/ AddPoolDevice
    \/ Len(order) = PoolSize /\ b_ret = NoResults /\ BatchCall(PoolIds)
    \/ BatchSubmit
    \/ \E i \in 1..Len(b_task) : TaskStart(i)
    \/ \E i \in 1..Len(b_task) : TaskFinish(i, PoolOutcome(i))
    \/ BatchCollect
    \/ BatchReturn

\* worker threads and the caller keep being scheduled, and every operation
\* called returns or raises
PoolFairness ==
    /\ WF_vars(BatchSubmit)
    /\ WF_vars(\E i \in 1..Len(b_task) : TaskStart(i))
    /\ WF_vars(\E i \in 1..Len(b_task) : TaskFinish(i, PoolOutcome(i)))
    /\ WF_vars(BatchCollect)
    /\ WF_vars(BatchReturn)

SpecPool == Init /\ [][NextPool]_vars /\ PoolFairness

\* Two callers racing through start_monitoring over a registry of all of
\* Ids: the monitor loops the race leaves running, each polling every device.
NextRace ==
    \/ \E c \in Callers : StartCall(c)
    \/ \E c \in Callers : Start46(c)
    \/ \E c \in Callers : Start47(c)
    \/ \E c \in Callers : Start48(c)
    \/ \E c \in Callers : Start49(c)
    \/ \E c \in Callers : Start50(c)
    \/ \E d \in Ids, ty \in DeviceType, n \in Names, v \in Versions :
          add_device(d, ty, n, v)
    \/ \E d \in Ids : remove_device(d)
    \/ \E t \in Threads : MonitorCheck(t)
    \/ \E t \in Threads : MonitorAcquire(t)
    \/ \E t \in Threads, S \in SUBSET Ids : MonitorAndroid(t, S)
    \/ \E t \in Threads : MonitorAndroidRaises(t)
    \/ \E t \in Threads, S \in SUBSET Ids : MonitorIos(t, S)
    \/ \E t \in Threads : MonitorIosRaises(t)
    \/ \E t \in Threads : MonitorTime(t)
    \/ \E t \in Threads : MonitorUpdateDevice(t)
    \/ \E t \in Threads : MonitorReconnect(t)
    \/ \E t \in Threads : MonitorRelease(t)
    \/ \E t \in Threads : MonitorSleep(t)

SpecRace == Init /\ [][NextRace]_vars

TypeOK ==
    /\ Registered \subseteq Ids \cup {PoolIds[i] : i \in 1..PoolSize}
    /\ bpc \in {"idle", "running"}
    /\ Len(b_task) <= Len(b_devices)
    /\ \A i \in 1..Len(b_task) :
          b_task[i] \in {"queued", "running", "success", "device_error",
                         "operation_error"}
    /\ b_invoked \subseteq 1..Len(b_task)
    /\ b_collect \in 1..(Len(b_devices) + 1)
    /\ spc \in {"idle", "test", "collect"}
    /\ s_outcome \in {"none", "returned", "NameError", "DeviceError"}
    /\ Len(metrics_list) <= 1
    /\ DOMAIN profiles \subseteq {ProfileName}
    /\ \A d \in Ids, x \in SettingNames :
          dev_settings[d][x] \in SettingValues \cup {Unset}
    /\ a_throw \in 0..MaxSettings
    /\ h_keys \subseteq Ids
    /\ \A c \in UpdateThreads :
          upc[c] \in {"idle", "test", "create", "append", "slice", "store"}
    /\ \A d \in Registered :
          /\ devices[d].id = d
          /\ devices[d].type \in DeviceType
          /\ devices[d].status \in {"connected", "disconnected"}
          /\ devices[d].last_seen \in 0..MaxTime
          /\ devices[d].reconnect_attempts \in 0..MaxReconnectAttempts
    /\ Len(order) = Cardinality(Registered)
    /\ {order[i] : i \in 1..Len(order)} = Registered
    /\ lock \in {None} \cup Threads
    /\ monitor_thread \in {None} \cup Threads
    /\ clock \in 1..MaxTime
    /\ listed_by \in {"none", "all", "connected"}
    /\ wpc \in {"idle", "check", "get", "sleep"}
    /\ w_ret \in {"none", "wait_true", "wait_false"}
    /\ hpc \in {"idle", "await"}
    /\ h_outcome \in {"none", "returned", "raised"}
    /\ h_ret.status \in {"none", "healthy", "warning", "error"}
    /\ \A d \in Ids : Len(health_history[d]) <= HealthCap

\* =================================================================== claims
InCycle(t) == tpc[t] \in {"android", "ios", "time", "iter", "reconnect"}
AliveThreads == {t \in Threads : Alive(t)}
\* the reachable set the cycle holds for a device type
ReachableSet(type) == IF type = ANDROID THEN android_devices ELSE ios_devices
OtherType(type) == IF type = ANDROID THEN IOS ELSE ANDROID
InOwnSet(d) == d \in ReachableSet(devices[d].type)
InOtherSetOnly(d) ==
    /\ d \notin ReachableSet(devices[d].type)
    /\ d \in ReachableSet(OtherType(devices[d].type))

\* C1: at most one background monitor loop exists at any time, whatever the
\* callers of start_monitoring / stop_monitoring do, concurrent callers included.
C1_AtMostOneLoop == Cardinality(AliveThreads) <= 1

\* C2: once stop_monitoring has returned and until the next start_monitoring
\* is called, no step changes the status, last_seen or reconnect_attempts of a
\* device record that stays registered.
C2_NoMutationAfterStop ==
    [][(quiesced /\ quiesced') =>
          \A d \in Registered \cap DOMAIN devices' : devices'[d] = devices[d]]_vars

\* C3: stop_monitoring never ends with an error, whenever it is called (never
\* started, during a cycle, during the sleep, twice, from two callers at once).
C3_StopNeverRaises == \A c \in Callers : cpc[c] # "stop_raised"

\* C4: poll cycles never overlap: while one monitor thread is between taking
\* and releasing the lock of its cycle, no other thread is inside a cycle.
C4_CyclesNeverOverlap ==
    \A t1, t2 \in Threads : (t1 # t2 /\ InCycle(t1)) => ~InCycle(t2)

\* a second loop waits to begin its cycle while the first is in the middle of
\* its cycle: one of two devices updated, a reconnect pending for the other
C4_Witness ==
    \E t1, t2 \in Threads :
        /\ t1 # t2
        /\ Len(order) = 2
        /\ idx = 2
        /\ tpc[t1] = "reconnect"
        /\ tpc[t2] = "acquire"

\* C5: the registry mutex is never held while a backend call (enumeration of
\* the reachable devices or a reconnect attempt) is in progress.
C5_LockNotHeldAcrossBackend ==
    \A t \in Threads : tpc[t] \in {"android", "ios", "reconnect"} => lock # t

\* C6: whenever the registry mutex is free, every Connected device has
\* reconnect_attempts = 0.
C6_ConnectedHasNoAttempts ==
    lock = None =>
        \A d \in Registered :
            devices[d].status = "connected" => devices[d].reconnect_attempts = 0

\* the mutex is free and a device is Connected through a reconnect attempt,
\* which had counted the attempt before it succeeded
C6_Witness ==
    /\ lock = None
    /\ \E d \in Registered \cap reconnected :
          /\ devices[d].status = "connected"
          /\ devices[d].last_seen > 0

\* C7: at the end of a poll cycle every registered device whose id is in the
\* reachable set of its own type is Connected with last_seen = the cycle's
\* time and reconnect_attempts = 0; an id that is only in the reachable set
\* of the other type is not treated as reachable (without a successful
\* reconnect the device is Disconnected).
C7_ReachableIsConnected ==
    CycleEnd =>
        \A d \in Registered :
            /\ InOwnSet(d) =>
                  /\ devices[d].status = "connected"
                  /\ devices[d].last_seen = current_time
                  /\ devices[d].reconnect_attempts = 0
            /\ (InOtherSetOnly(d) /\ d \notin reconnected) =>
                  /\ devices[d].status = "disconnected"
                  /\ devices[d].reconnect_attempts > 0

\* a cycle ends with one device reachable in its own type's set and another
\* whose id was only in the other type's set
C7_Witness ==
    /\ CycleEnd
    /\ \E d1, d2 \in Registered :
          /\ InOwnSet(d1)
          /\ devices[d1].status = "connected"
          /\ InOtherSetOnly(d2)
          /\ devices[d2].status = "disconnected"

\* C8: at the end of a poll cycle every registered device that was neither
\* reachable nor reconnected is Disconnected with last_seen = the cycle's
\* time, also when no reconnect was attempted.
C8_UnreachableSeenThisCycle ==
    CycleEnd =>
        \A d \in Registered :
            (~InOwnSet(d) /\ d \notin reconnected) =>
                /\ devices[d].status = "disconnected"
                /\ devices[d].last_seen = current_time

\* C9: while monitoring is started and not stopped, the monitor loop is alive:
\* no backend outcome ends it.
C9_NoTerminalState ==
    \A t \in Threads :
        (monitor_thread = t /\ Started(t) /\ ~stop_event) => Alive(t)

\* the for loop is at a device whose attempts are exhausted and whose id is
\* in the reachable set of its type
PollsExhaustedReachable ==
    /\ lock # None
    /\ tpc[lock] = "iter"
    /\ idx <= Len(order)
    /\ devices[order[idx]].reconnect_attempts = MaxReconnectAttempts
    /\ InOwnSet(order[idx])

\* C10: a device whose reconnect_attempts reached max_reconnect_attempts is
\* still polled; when its id is in the reachable set of its type the cycle
\* marks it Connected and resets the counter to 0, so reconnect attempts are
\* available again.
C10_ExhaustedStillPolled ==
    [][(PollsExhaustedReachable /\ idx' # idx) =>
          /\ devices'[order[idx]].status = "connected"
          /\ devices'[order[idx]].reconnect_attempts = 0
          /\ devices'[order[idx]].reconnect_attempts < MaxReconnectAttempts]_vars

C10_Witness == PollsExhaustedReachable

\* ------------------------------------------------ registry calls (C11-C16)
FreshRecord(d, ty, n, v) ==
    [id |-> d, type |-> ty, name |-> n, version |-> v,
     status |-> "disconnected", last_seen |-> 0, reconnect_attempts |-> 0]

\* what a caller reads through the list it was handed
ListedView == [i \in 1..Len(listed) |-> Deref(listed[i])]
ListedSet == {ListedView[i] : i \in 1..Len(listed)}

\* C11: add_device with an id that is not registered returns True and
\* registers a record with the given id, type, name and version, status
\* "disconnected", last_seen 0 and reconnect_attempts 0, which the
\* get_device_info that follows returns; this also holds when the id was
\* registered and removed before, whatever state its old record had.
C11_AddAbsentRegistersFresh ==
    [][\A d \in Ids, ty \in DeviceType, n \in Names, v \in Versions :
         (d \notin Registered /\ add_device(d, ty, n, v)) =>
             /\ ret' = "add_true"
             /\ d \in DOMAIN devices'
             /\ get_device_info(d)' = FreshRecord(d, ty, n, v)]_vars

\* d1 was listed while connected, removed, and has just been added again
C11_Witness ==
    /\ ret = "add_true"
    /\ Registered = {"d1"}
    /\ devices["d1"] = FreshRecord("d1", ListType["d1"], "n1", "v1")
    /\ \E i \in 1..Len(listed) :
          /\ ~IsRef(listed[i])
          /\ listed[i].id = "d1"
          /\ listed[i].status = "connected"
          /\ listed[i].last_seen > 0

\* C12: add_device with an id that is registered returns False and leaves
\* the registry - that record included - exactly as it was, also when the
\* type passed differs from the stored one.
C12_AddPresentIsNoOp ==
    [][\A d \in Ids, ty \in DeviceType, n \in Names, v \in Versions :
         (d \in Registered /\ add_device(d, ty, n, v)) =>
             /\ ret' = "add_false"
             /\ devices' = devices
             /\ order' = order]_vars

\* a connected android d1 survived an add_device call
C12_Witness ==
    /\ ret = "add_false"
    /\ "d1" \in Registered
    /\ devices["d1"].type = ANDROID
    /\ devices["d1"].status = "connected"
    /\ devices["d1"].last_seen > 0

\* C13: remove_device with a registered id returns True, unregisters that id
\* and leaves every other device's record as it was; with an id that is not
\* registered it returns False and changes nothing.
C13_RemoveOnlyThatDevice ==
    [][\A d \in Ids :
         remove_device(d) =>
             IF d \in Registered
             THEN /\ ret' = "remove_true"
                  /\ DOMAIN devices' = Registered \ {d}
                  /\ \A x \in Registered \ {d} : devices'[x] = devices[x]
             ELSE /\ ret' = "remove_false"
                  /\ devices' = devices
                  /\ order' = order]_vars

\* d1 was removed while the connected d2 stayed
C13_Witness ==
    /\ ret = "remove_true"
    /\ Registered = {"d2"}
    /\ devices["d2"].status = "connected"

\* C15: get_connected_devices returns exactly the registered devices whose
\* status is "connected" at the call, and get_all_devices returns exactly
\* the registered devices.
C15_ListsAreExact ==
    [][/\ get_connected_devices =>
            /\ ListedSet' = {devices[d] : d \in
                               {x \in Registered :
                                   devices[x].status = "connected"}}
            /\ Len(listed') = Cardinality(ListedSet')
       /\ get_all_devices =>
            /\ ListedSet' = {devices[d] : d \in Registered}
            /\ Len(listed') = Cardinality(Registered)]_vars

\* of two registered devices the call returned the connected one only
C15_Witness ==
    /\ listed_by = "connected"
    /\ Cardinality(Registered) = 2
    /\ Len(listed) = 1
    /\ IsRef(listed[1])
    /\ devices[listed[1].ref].status = "connected"
    /\ \E d \in Registered : devices[d].status = "disconnected"

\* C16: what get_all_devices returned is a snapshot: as long as the caller
\* holds that list, no later registry operation or poll cycle changes what
\* the caller reads through it.
C16_ListAllIsSnapshot ==
    [][(listed_by = "all" /\ listed' = listed) =>
           ListedView' = ListedView]_vars

\* ----------------------------------------------------- wait_for_device (C14)
\* C14: wait_for_device returns True whenever the awaited device is or
\* becomes "connected" within the timeout window, and False only when it
\* never was within that window.
C14_TrueWheneverConnectedInWindow == w_ret = "wait_false" => ~conn_seen

\* What the polling loop does guarantee: True is returned exactly by a poll
\* that finds the device registered and "connected", polls start only while
\* less than the timeout has elapsed, False is returned only once the timeout
\* has elapsed, and no step of the call changes the registry.
WaitReturnsWhatItPolls ==
    [][/\ (wpc = "check" /\ wpc' = "get") => clock - w_start < w_timeout
       /\ (wpc = "get" /\ wpc' # "get") =>
            ((w_ret' = "wait_true") <=>
                (w_id \in Registered /\ devices[w_id].status = "connected"))
       /\ (w_ret' = "wait_true" /\ w_ret # "wait_true") => wpc = "get"
       /\ (w_ret' = "wait_false" /\ w_ret # "wait_false") =>
            clock - w_start >= w_timeout
       /\ (wpc = "sleep" /\ wpc' # "sleep") => clock >= w_wake
       /\ wpc' # wpc => (devices' = devices /\ order' = order)]_vars

\* ------------------------------------------------- HealthMonitor (C17-C20)
Range(f) == {f[i] : i \in DOMAIN f}
Min(a, b) == IF a <= b THEN a ELSE b

\* a metric that is present is on the wrong side of its threshold: ceilings
\* for cpu, memory and temperature, floors for battery and connection
ViolatesThreshold(h) ==
    \/ h.cpu_usage > 90
    \/ h.memory_usage > 90
    \/ h.battery_level # NoValue /\ h.battery_level < 15
    \/ h.temperature # NoValue /\ h.temperature > 45
    \/ h.connection_strength < 30

\* C17: when get_metrics() succeeds, check_device_health returns status
\* "warning" if and only if a present metric violates its threshold
\* (cpu > 90, memory > 90, battery < 15, temperature > 45, connection < 30),
\* and "healthy" otherwise.
C17_WarningIffThresholdViolated ==
    (h_outcome = "returned" /\ h_ret.status # "error") =>
        h_ret.status = IF ViolatesThreshold(h_ret) THEN "warning" ELSE "healthy"

\* C18: when get_metrics() fails, check_device_health returns a DeviceHealth
\* with status "error", cpu_usage, memory_usage and connection_strength 0 and
\* a non-empty last_error, and appends it to the device's history like a
\* successful one (one entry more, up to the cap).
C18_FailedReadIsAppended ==
    [][\A msg \in ErrorMessages :
         HealthMetricsRaises(msg) =>
            /\ h_ret'.status = "error"
            /\ h_ret'.cpu_usage = 0
            /\ h_ret'.memory_usage = 0
            /\ h_ret'.connection_strength = 0
            /\ h_ret'.last_error \notin {NoError, ""}
            /\ Len(health_history'[h_id]) =
                   Min(Len(health_history[h_id]) + 1, HealthCap)
            /\ health_history'[h_id][Len(health_history'[h_id])] = h_ret']_vars

\* C19: check_device_health never raises to its caller, whatever the id
\* (registered, removed, never registered) and whatever get_metrics() does.
C19_CheckHealthNeverRaises == h_outcome # "raised"

\* C20: after n check_device_health calls for a device its history holds the
\* min(n, HealthCap) most recent snapshots, so never more than HealthCap and
\* exactly HealthCap once n has reached it (e.g. after 205 calls).
C20_HistoryHoldsLastCalls ==
    \A d \in Ids : Len(health_history[d]) = Min(h_calls[d], HealthCap)

\* What _update_health_history does guarantee: the history is never longer
\* than HealthCap and holds, oldest first, the most recent snapshots that
\* were appended - those of the successful reads only.
HistoryKeepsLastAppended ==
    \A d \in Ids :
        LET n == Min(h_appended[d], HealthCap)
        IN /\ Len(health_history[d]) = n
           /\ \A i \in 1..n :
                 health_history[d][i].cpu_usage =
                     SampleAt(h_appended[d] - n + i - 1).cpu_usage

\* ------------------------------------------- PerformanceProfiler (C21, C30)
\* C21: after n samples were appended to a device's metrics history it
\* holds, oldest first, the min(n, MetricsCap) most recent of them: never
\* more than MetricsCap entries, and exactly MetricsCap after 1005 samples.
C21_MetricsHistoryKeepsLast ==
    \A d \in Ids :
        LET n == IF p_appended[d] <= 1000 THEN p_appended[d] ELSE 1000
        IN /\ Len(metrics_history[d]) = n
           /\ \A i \in 1..n :
                 metrics_history[d][i].throughput =
                     (p_appended[d] - n + i - 1) % 1001

\* 1005 samples were appended and the history holds the last 1000
C21_Witness ==
    /\ p_appended["d1"] = 1005
    /\ Len(metrics_history["d1"]) = 1000
    /\ metrics_history["d1"][1].throughput = 5
    /\ metrics_history["d1"][1000].throughput = 1004 % 1001

\* C30: _collect_metrics never raises: when the device cannot be resolved,
\* ping() fails or get_metrics() fails it returns a sample for that id with
\* response_time 0, throughput 0 and error_rate 1.0; when all succeed the
\* sample carries the backend's throughput and error_rate.
C30_CollectAlwaysReturns ==
    [][/\ (ppc # "idle" /\ ppc' = "idle") => p_outcome' = "returned"
       /\ CollectRaises =>
            /\ p_ret'.device_id = p_id
            /\ p_ret'.response_time = 0
            /\ p_ret'.throughput = 0
            /\ p_ret'.error_rate = 100
       /\ \A m \in PerfSamples :
            CollectMetrics(m) =>
                /\ p_ret'.device_id = p_id
                /\ p_ret'.throughput = m.throughput
                /\ p_ret'.error_rate = m.error_rate
       /\ (ppc = "ping" /\ ~p_device) => ppc' # "metrics"]_vars

\* a sample was returned for an id the registry does not know
C30_Witness ==
    /\ p_outcome = "returned"
    /\ p_id \notin Registered
    /\ ~p_device
    /\ p_ret.device_id = p_id
    /\ p_ret.error_rate = 100
    /\ p_ret.throughput = 0

\* ------------------------------------------------- AutoRecovery (C22-C26)
\* a step in which coroutine k ends a check_and_recover call that found the
\* device unhealthy and its counter below max_attempts
EndsUnhealthyPass(k) ==
    /\ rpc[k] # "idle"
    /\ rpc'[k] = "idle"
    /\ r_ret'[k] \in {"true", "false"}
    /\ r_health'[k].status # "healthy"
    /\ r_before'[k] < 3

\* the device actions whose trigger holds for a health snapshot
Triggered(h) ==
    {a \in {"restart_apps", "reconnect", "reboot"} :
        \/ a = "restart_apps" /\ (h.cpu_usage > 90 \/ h.memory_usage > 90)
        \/ a = "reconnect" /\ h.connection_strength < 30
        \/ a = "reboot" /\ h.status = "error"}

\* C22: once max_attempts check_and_recover calls in a row found a device
\* unhealthy, with no healthy check in between, its recovery_attempts equals
\* max_attempts (and stays there, with no action issued, until a healthy
\* check).
C22_ExhaustedAfterMaxUnhealthy ==
    \A d \in Ids : r_streak[d] = 3 => recovery_attempts[d] = 3

C24_UnhealthyPassCountsOnce ==
    [][\A k \in Coroutines :
         EndsUnhealthyPass(k) =>
            recovery_attempts'[r_id[k]] = recovery_attempts[r_id[k]] + 1]_vars

\* C25: recovery_attempts of every device stays within 0..max_attempts, also
\* when calls for the same device interleave at their awaits.
C25_CounterWithinBounds ==
    \A d \in Ids : recovery_attempts[d] \in 0..3

\* C26: in one unhealthy, not exhausted pass every device action whose
\* trigger holds is issued exactly once and no other.
C26_EveryTriggerFiresOnce ==
    [][\A k \in Coroutines :
         EndsUnhealthyPass(k) =>
            /\ {r_issued'[k][i] : i \in 1..Len(r_issued'[k])} =
                   Triggered(r_health'[k])
            /\ Len(r_issued'[k]) = Cardinality(Triggered(r_health'[k]))]_vars

\* ------------------------------------------------- BatchOperationManager
Position(d) == CHOOSE i \in 1..Len(b_devices) : b_devices[i] = d
Requested == {b_devices[i] : i \in 1..Len(b_devices)}
Returned == bpc = "idle" /\ b_ret # NoResults

\* C27: execute_batch never raises; the map it returns has exactly one entry
\* per requested device id, whose status is error iff that device's operation
\* raised or the device was unknown and success otherwise, so that one
\* device's failure leaves every other device's entry as it is.
C27_OneEntryPerDevice ==
    Returned =>
        /\ b_ret = results
        /\ DOMAIN b_ret = Requested
        /\ \A d \in Requested :
              /\ b_ret[d].status = "error" <=>
                    b_task[Position(d)] \in {"operation_error", "device_error"}
              /\ b_ret[d].status = "success" <=> b_task[Position(d)] = "success"
              /\ b_ret[d].status \in {"success", "error"}

C27_Witness ==
    /\ Returned
    /\ Len(b_devices) = 2
    /\ DOMAIN b_ret = {"d1", "d2"}
    /\ Cardinality({d \in DOMAIN b_ret : b_ret[d].status = "error"}) = 1
    /\ \E d \in DOMAIN b_ret : b_task[Position(d)] = "operation_error"

\* C28: a requested id that is not registered gets an error entry whose
\* message says the device was not found; its operation is never called, and
\* no step of the batch changes the registry.
C28_UnknownDeviceIsErrorEntry ==
    [][/\ batchVars' # batchVars => registry' = registry
       /\ \A i \in 1..Len(b_task') :
             b_task'[i] = "device_error" => i \notin b_invoked'
       /\ \A i \in 1..Len(b_task) :
             (TaskStart(i) /\ ~get_device(b_devices[i])) =>
                 b_task'[i] = "device_error"
       /\ Returned' =>
             \A d \in Requested' :
                 b_task'[Position(d)'] = "device_error" =>
                     b_ret'[d] = ErrorEntry(DeviceNotFound(d))]_vars

C28_Witness ==
    /\ Returned
    /\ b_devices = <<"d1", "d2">>
    /\ b_task = <<"success", "device_error">>
    /\ b_ret["d2"] = ErrorEntry(DeviceNotFound("d2"))

AllEnded == \A i \in 1..Len(b_devices) : i <= Len(b_task) /\ Ended(i)

\* C29: at most max_workers device tasks run at the same time and a task is
\* started only after every task submitted before it; every task of the batch
\* eventually ends, and execute_batch returns only after all of them ended.
C29_AtMostTenAtOnce ==
    /\ [](Cardinality(Running) <= max_workers)
    /\ [](\A i, j \in 1..Len(b_task) :
             (i < j /\ b_task[i] = "queued") => b_task[j] = "queued")
    /\ [](Returned => AllEnded)
    /\ (bpc = "running") ~> (Returned /\ AllEnded)

C29_Witness ==
    /\ Cardinality(Running) = max_workers
    /\ Len(b_task) > max_workers
    /\ b_task[max_workers + 1] = "queued"
\* ------------------------------------------------------- start_profiling
\* C31: start_profiling on a known device ends by returning the samples it
\* collected, at most one per second of the duration; these are the last entries of
\* the device's history, in the order they were produced.
C31_ProfilingReturnsSamples ==
    (spc = "idle" /\ s_outcome \notin {"none", "DeviceError"}) =>
        /\ s_outcome = "returned"
        /\ Len(s_ret) <= s_duration
        /\ Len(metrics_history[s_id]) >= Len(s_ret)
        /\ s_ret = SubSeq(metrics_history[s_id],
                          Len(metrics_history[s_id]) - Len(s_ret) + 1,
                          Len(metrics_history[s_id]))

\* what the code does instead: a call that reaches the loop body appends one
\* sample and ends with NameError; only a call whose loop never runs returns
ProfilingEndsAfterOneSample ==
    [][/\ \A m \in UNION {Range(metrics_history'[d]) : d \in Ids} :
             ProfilingSample(m) =>
                 /\ s_outcome' = "NameError"
                 /\ metrics_history'[s_id] = Append(metrics_history[s_id], m)
       /\ ProfilingReturn => s_ret' = <<>>]_vars
\* -------------------------------------------------------- ProfileManager
\* which of the patterns in use match which of the device models in use,
\* as regular expressions
PatternMatches ==
    {<<"test_model", "test_model">>, <<"Pixel 6", "Pixel 6">>,
     <<"Pixel.*", "Pixel 6">>}
Matches(pattern, model) == <<pattern, model>> \in PatternMatches
NoPatternMatches(d, name) ==
    \A i \in 1..Len(profiles[name].compatibility) :
        ~Matches(profiles[name].compatibility[i], DeviceModel[d])
NotFound(name) == <<"ValueError", "Profile", name, "not found">>
Incompatible(d, name) ==
    <<"ValueError", "Profile", name, "is not compatible with device", d>>

\* C32: apply_profile with an unknown profile name fails with the not-found
\* error, and for a registered device whose model no entry of the profile's
\* compatibility list matches it fails with the not-compatible error; both
\* leave the settings of every device and the stored profiles as they were.
C32_RejectedProfileChangesNothing ==
    [][\A d \in Ids, name \in AppliedNames, throw \in 0..MaxSettings :
          apply_profile(d, name, throw) =>
              /\ name \notin DOMAIN profiles =>
                    /\ a_outcome' = NotFound(name)
                    /\ dev_settings' = dev_settings
                    /\ profiles' = profiles
              /\ (/\ name \in DOMAIN profiles
                  /\ d \in Registered
                  /\ NoPatternMatches(d, name)) =>
                    /\ a_outcome' = Incompatible(d, name)
                    /\ dev_settings' = dev_settings
                    /\ profiles' = profiles]_vars

C32_Witness ==
    /\ a_outcome = Incompatible("d2", ProfileName)
    /\ "d2" \in Registered
    /\ ProfileName \in DOMAIN profiles
    /\ NoPatternMatches("d2", ProfileName)
    /\ dev_settings["d2"]["setting1"] = "value1"

C37_CompatibleIffPatternMatches ==
    [][\A d \in Ids, throw \in 0..MaxSettings :
          (/\ apply_profile(d, ProfileName, throw)
           /\ ProfileName \in DOMAIN profiles
           /\ d \in Registered) =>
              (a_outcome' = Incompatible(d, ProfileName) <=>
                   NoPatternMatches(d, ProfileName))]_vars
\* ------------------------------------------- history updates from threads
\* C34: when several threads update the health history of one device at
\* once, the record of every finished call is in the history as long as fewer
\* than the cap were added, and the history holds at most HealthCap records.
C34_NoLostUpdate ==
    (\A c \in UpdateThreads : upc[c] = "idle") =>
        \A d \in LifeIds :
            /\ Len(health_history[d]) <= HealthCap
            /\ Cardinality(u_added) <= HealthCap =>
                  u_added \subseteq Range(health_history[d])
\* ------------------------------------------------ the poll cycle (C35-C38)
\* a step in which monitor thread t calls _try_reconnect
InvokesReconnect(t) == tpc[t] # "reconnect" /\ tpc'[t] = "reconnect"

\* C35: reconnect_attempts of every device is always in
\* 0..MaxReconnectAttempts; the monitor calls _try_reconnect for a device only
\* when the counter is below the maximum, and adds exactly 1 to it first; the
\* counter of a record changes in no other way than that or by going back to
\* 0 as the device becomes Connected - so at most MaxReconnectAttempts calls
\* lie between two Connected moments and an exhausted device gets none.
C35_AttemptsBoundReconnects ==
    /\ [](\A d \in Registered :
            devices[d].reconnect_attempts \in 0..MaxReconnectAttempts)
    /\ [][/\ \A t \in Threads :
                InvokesReconnect(t) =>
                    /\ devices[order[idx]].reconnect_attempts
                           < MaxReconnectAttempts
                    /\ devices'[order[idx]].reconnect_attempts =
                           devices[order[idx]].reconnect_attempts + 1
                    /\ devices'[order[idx]].status = "disconnected"
          /\ \A d \in Registered \cap DOMAIN devices' :
                devices'[d].reconnect_attempts # devices[d].reconnect_attempts =>
                    \/ \E t \in Threads : InvokesReconnect(t) /\ order[idx] = d
                    \/ /\ devices'[d].reconnect_attempts = 0
                       /\ devices'[d].status = "connected"]_vars

\* a cycle has passed an unreachable device whose counter is exhausted
\* without calling _try_reconnect for it
C35_Witness ==
    /\ lock # None
    /\ tpc[lock] = "iter"
    /\ idx = 2
    /\ ~InOwnSet(order[1])
    /\ order[1] \notin reconnected
    /\ devices[order[1]].status = "disconnected"
    /\ devices[order[1]].reconnect_attempts = MaxReconnectAttempts
    /\ devices[order[1]].last_seen < current_time

\* C36: at the end of a poll cycle a registered device is Connected exactly
\* when its id was in the reachable set of its type or the reconnect attempt
\* of this cycle succeeded; every other device is Disconnected.
C36_ConnectedIffReachableOrReconnected ==
    CycleEnd =>
        \A d \in Registered :
            /\ devices[d].status \in {"connected", "disconnected"}
            /\ devices[d].status = "connected" <=>
                  (InOwnSet(d) \/ d \in reconnected)

\* a cycle ends with one device Connected by its reconnect attempt and
\* another, unreachable and not reconnected, Disconnected
C36_Witness ==
    /\ CycleEnd
    /\ \E d1, d2 \in Registered :
          /\ ~InOwnSet(d1)
          /\ d1 \in reconnected
          /\ devices[d1].status = "connected"
          /\ ~InOwnSet(d2)
          /\ d2 \notin reconnected
          /\ devices[d2].status = "disconnected"
          /\ devices[d2].last_seen > 0

Identity(device) ==
    <<device.id, device.type, device.name, device.version>>

\* C38: no step of a monitor thread adds or removes a registry entry or
\* changes the id, type, name or version of a record, and while a poll cycle
\* is under way no other step does either: the devices a cycle goes through
\* are the same from its first update to its last.
C38_CycleSeesOneRegistry ==
    [][((\E t \in Threads : InCycle(t)) \/ tpc' # tpc) =>
          /\ order' = order
          /\ DOMAIN devices' = DOMAIN devices
          /\ \A d \in Registered :
                Identity(devices'[d]) = Identity(devices[d])]_vars

\* a cycle is between the updates of two registered devices
C38_Witness ==
    /\ lock # None
    /\ tpc[lock] = "iter"
    /\ idx = 2
    /\ Len(order) = 2
    /\ devices[order[1]].last_seen = current_time
\* ------------------------------------------------ AutoRecovery (C39, C40)
\* C39: a check_and_recover call that adds to a device's recovery_attempts
\* has issued at least one device action.
C39_CountedPassHasActed ==
    [][\A k \in Coroutines :
         (/\ rpc[k] # "idle"
          /\ rpc'[k] = "idle"
          /\ recovery_attempts'[r_id[k]] > recovery_attempts[r_id[k]]) =>
             r_issued'[k] # <<>>]_vars

\* the actions whose trigger holds, in the order of _attempt_recovery
OrderedTriggers(h) ==
    SelectSeq(<<"restart_apps", "reconnect", "reboot">>,
              LAMBDA a : a \in Triggered(h))

\* C40: for a registered, not exhausted device whose health check gave status
\* error the call issues reconnect and then reboot and never restart_apps; in
\* every pass the actions are issued in the order restart_apps, reconnect,
\* reboot, and an action that raises ends the pass with the later ones not
\* issued.
C40_ErrorReconnectsThenReboots ==
    [][\A k \in Coroutines :
         /\ (/\ rpc[k] = "metrics"
             /\ rpc'[k] # "metrics"
             /\ r_health'[k].status = "error"
             /\ recovery_attempts[r_id[k]] < max_attempts
             /\ r_id[k] \in Registered) =>
                /\ rpc'[k] = "act"
                /\ OrderedTriggers(r_health'[k]) = <<"reconnect", "reboot">>
         /\ r_issued'[k] # r_issued[k] =>
                \/ rpc[k] = "idle" /\ r_issued'[k] = <<>>
                \/ /\ rpc[k] = "act"
                   /\ Len(r_issued'[k]) = Len(r_issued[k]) + 1
                   /\ r_issued'[k] = SubSeq(OrderedTriggers(r_health[k]), 1,
                                            Len(r_issued'[k]))
                   /\ rpc'[k] = "act" =>
                         Len(r_issued'[k]) < Len(OrderedTriggers(r_health[k]))
                   /\ (rpc'[k] = "idle" /\ r_ret'[k] = "true") =>
                         r_issued'[k] = OrderedTriggers(r_health[k])
         /\ RecoverAction(k, FALSE) => rpc'[k] = "idle" /\ r_ret'[k] = "false"]_vars

\* an error snapshot was answered by reconnect and reboot, both returning
C40_Witness ==
    \E k \in Coroutines :
        /\ rpc[k] = "idle"
        /\ r_health[k].status = "error"
        /\ r_health[k].cpu_usage = 0
        /\ r_issued[k] = <<"reconnect", "reboot">>
        /\ r_ret[k] = "true"
====
